---- MODULE Spec2Model ----
(***************************************************************************)
(* Timeline compiler of the video editor backend (backend/app/main.py,     *)
(* backend/app/video_tools.py, backend/app/validators.py).                 *)
(*                                                                         *)
(* Times are integers counted in ticks of 5 ms (200 ticks make a second),  *)
(* so that the 0.01 s minimum segment length is MinSegTicks = 2             *)
(* ticks and segments shorter than, equal to and longer than it all exist. *)
(* Playback rates are integers counted in sixteenths (RateUnit is 1.0), so *)
(* that the powers of two from 1/16 to 16 and their halvings are exact.    *)
(* A range is the tuple <<start, end>>, a speed range or segment the tuple *)
(* <<start, end, rate>>, as in the source.                                 *)
(***************************************************************************)
EXTENDS Integers, Sequences, FiniteSets, TLC

VARIABLES
    pc,                      \* "idle", "done" (handlers); "input", "merged", "built", "rendered",
                             \* "chained", "analyzed" (function calls)
    endpoint,                \* the handler that produced the response
    status,                  \* HTTP status of the response, 0 while there is none
    detail,                  \* the error detail of the response, "" while there is none
    renders,                 \* the render-engine operations invoked, in order
    duration_sec,            \* probed duration of the request's media, in ticks
    normalized_ranges,       \* export_from_file: validated trim ranges, sorted
    merged_ranges,           \* _merge_ranges(normalized_ranges)
    normalized_speed_ranges, \* validated speed ranges, in input order
    keep_ranges,             \* keep ranges computed inside _build_speed_segments
    speed_segments,          \* value returned by _build_speed_segments
    intent,                  \* edit_request: <<>> or <<the parsed intent>>
    submitted,               \* export_from_file: <<>> or <<the form as submitted>>
    video_sessions,          \* the upload registry: sequence of session durations
    upload_exists,           \* whether the file saved by the request is on disk
    outputs,                 \* output artifacts the request left in OUTPUT_DIR
    sprite_params,           \* <<>> or <<[interval_sec, columns, rows]>>: the sprite parameters given
    analysis,                \* <<>> or <<the sprite analysis or token estimate produced>>
    chain_speed,             \* _build_atempo_chain: its argument, in sixteenths
    atempo_chain,            \* _build_atempo_chain: the factors returned, in millionths
    remerged,                \* _merge_ranges(merged_ranges): the merge of a merged list
    chain_remaining,         \* _build_atempo_chain, while it runs: its local remaining
    chain_factors            \* _build_atempo_chain, while it runs: its local factors

vars == <<pc, endpoint, status, detail, renders, duration_sec, normalized_ranges,
          merged_ranges, normalized_speed_ranges, keep_ranges, speed_segments,
          intent, submitted, video_sessions, upload_exists, outputs, sprite_params, analysis,
          chain_speed, atempo_chain, remerged, chain_remaining, chain_factors>>

-----------------------------------------------------------------------------
(* Units and program constants *)

\* the rate 1.0 (main.py:129), in sixteenths
RateUnit == 16
RateTwo == 2 * RateUnit
RateHalf == RateUnit \div 2
RateQuarter == RateUnit \div 4

\* main.py:160  e - s > 0.01
MinSegTicks == 2
\* main.py:58  MAX_VIDEO_DURATION_SEC = 10 s
MAX_VIDEO_DURATION_SEC == 2000
\* video_tools.py:360  max(0.1, float(interval_sec)): 0.1 s
MinIntervalTicks == 20

(* Bounds of the model *)
MaxPt == 4         \* time points a range may start or end at, besides 0
MaxReq == 2        \* handler requests: parts (ranges, speed fields) per request
MaxSessions == 1   \* uploads registered
MaxLen == 3        \* _merge_ranges calls: ranges per list
MaxSpeeds == 3     \* _build_speed_segments calls: speed ranges per list
MaxSegs == 2       \* render_segments_with_speed calls: segments per plan
MaxRate == 16      \* _build_atempo_chain calls: the largest rate, in units of 1.0
MaxSpriteDur == 20 \* generate_sprite_sheets calls: the longest media, in steps of 5 ticks
MaxCols == 3       \* generate_sprite_sheets calls: columns of a sheet
MaxRows == 2       \* generate_sprite_sheets calls: rows of a sheet
MaxChain == 6      \* _build_atempo_chain steps: the factors recorded of a running chain

Max(a, b) == IF a >= b THEN a ELSE b
Min(a, b) == IF a <= b THEN a ELSE b

\* The time points, in ticks: 0, 3, 6, 7, 9, 12, 15, 16, 18, ...  The pieces
\* between them are longer than, shorter than and as long as the minimum
\* segment length.
Tick(k) == 9 * (k \div 4) + (CASE k % 4 = 0 -> 0 [] k % 4 = 1 -> 3 [] k % 4 = 2 -> 6 [] OTHER -> 7)

\* the duration of the media of the model: the last time point
Duration == Tick(MaxPt)

\* all sequences over S of length at most n
SeqsUpTo(S, n) == UNION {[1..k -> S] : k \in 0..n}

-----------------------------------------------------------------------------
(* Range algebra: main.py *)

\* sorted(ranges, key=lambda x: x[0]): stable insertion by start
RECURSIVE InsertByStart(_, _)
InsertByStart(sorted, r) ==
    IF sorted = <<>> THEN <<r>>
    ELSE IF sorted[Len(sorted)][1] <= r[1] THEN Append(sorted, r)
    ELSE Append(InsertByStart(SubSeq(sorted, 1, Len(sorted) - 1), r), sorted[Len(sorted)])

RECURSIVE SortedByStart(_)
SortedByStart(ranges) ==
    IF ranges = <<>> THEN <<>>
    ELSE InsertByStart(SortedByStart(SubSeq(ranges, 1, Len(ranges) - 1)), ranges[Len(ranges)])

\* One iteration of the loop of _merge_ranges, with the touching test dropped to
\* a strict overlap test.
MergeStepStrict(merged, r) ==
    LET last == merged[Len(merged)]
    IN  IF r[1] < last[2]
        THEN [merged EXCEPT ![Len(merged)] = <<last[1], Max(last[2], r[2])>>]
        ELSE Append(merged, r)

\* One iteration of the loop with the merged end taken from the later range,
\* without the max of line 101.
MergeStepLaterEnd(merged, r) ==
    LET last == merged[Len(merged)]
    IN  IF r[1] <= last[2]
        THEN [merged EXCEPT ![Len(merged)] = <<last[1], r[2]>>]
        ELSE Append(merged, r)

\* One iteration of the loop of _merge_ranges (main.py:98-103)
MergeStep(merged, r) ==
    LET last == merged[Len(merged)]
    IN  IF r[1] <= last[2]
        THEN [merged EXCEPT ![Len(merged)] = <<last[1], Max(last[2], r[2])>>]
        ELSE Append(merged, r)

\* The loop with each range compared with the range before it in the sorted
\* list instead of the last merged range.
RECURSIVE MergeLoopAgainstPrevious(_, _, _)
MergeLoopAgainstPrevious(ordered, i, merged) ==
    IF i > Len(ordered) THEN merged
    ELSE LET last == merged[Len(merged)]
             r == ordered[i]
         IN  MergeLoopAgainstPrevious(ordered, i + 1,
                 IF r[1] <= ordered[i - 1][2]
                 THEN [merged EXCEPT ![Len(merged)] = <<last[1], Max(last[2], r[2])>>]
                 ELSE Append(merged, r))

\* main.py:98-103: the loop over ordered[1:]
RECURSIVE MergeLoop(_, _, _)
MergeLoop(ordered, i, merged) ==
    IF i > Len(ordered) THEN merged
    ELSE MergeLoop(ordered, i + 1, MergeStep(merged, ordered[i]))

\* _merge_ranges (main.py:93-104)
_merge_ranges(ranges) ==
    IF ranges = <<>> THEN <<>>
    ELSE LET ordered == SortedByStart(ranges)
         IN  MergeLoop(ordered, 2, <<ordered[1]>>)

\* The keep-range loop with the gap test t[1] >= cursor: a trim range starting
\* at the cursor yields an empty keep range.
RECURSIVE KeepLoopEmptyGaps(_, _, _, _, _)
KeepLoopEmptyGaps(duration, trims, i, cursor, keep) ==
    IF i > Len(trims)
    THEN IF cursor < duration THEN Append(keep, <<cursor, duration>>) ELSE keep
    ELSE LET t == trims[i]
         IN  KeepLoopEmptyGaps(duration, trims, i + 1, Max(cursor, t[2]),
                      IF t[1] >= cursor THEN Append(keep, <<cursor, t[1]>>) ELSE keep)

\* The keep-range loop shared by _build_speed_segments (main.py:113-120) and
\* remove_segments_and_stitch (video_tools.py:177-184)
RECURSIVE KeepLoop(_, _, _, _, _)
KeepLoop(duration, trims, i, cursor, keep) ==
    IF i > Len(trims)
    THEN IF cursor < duration THEN Append(keep, <<cursor, duration>>) ELSE keep
    ELSE LET t == trims[i]
         IN  KeepLoop(duration, trims, i + 1, Max(cursor, t[2]),
                      IF t[1] > cursor THEN Append(keep, <<cursor, t[1]>>) ELSE keep)

\* keep_ranges of _build_speed_segments (main.py:113-123)
BuildKeepRanges(duration, trims) ==
    IF trims = <<>> THEN << <<0, duration>> >>
    ELSE KeepLoop(duration, trims, 1, 0, <<>>)

-----------------------------------------------------------------------------
(* Speed overlay: _build_speed_segments, main.py:107-160 *)

\* The overlap test with <= : ranges that only touch are rejected too.
HasOverlapOrTouch(speed_ranges_sorted) ==
    \E i \in 2..Len(speed_ranges_sorted) :
        speed_ranges_sorted[i][1] <= speed_ranges_sorted[i - 1][2]

\* main.py:132-136: some range of the sorted list starts before its predecessor ends
HasOverlap(speed_ranges_sorted) ==
    \E i \in 2..Len(speed_ranges_sorted) :
        speed_ranges_sorted[i][1] < speed_ranges_sorted[i - 1][2]

\* The walk with line 155 left out: the cursor stays where it was.
RECURSIVE WalkSpeedsStaleCursor(_, _, _, _, _, _)
WalkSpeedsStaleCursor(keep_start, keep_end, speeds, i, cursor, segments) ==
    IF i > Len(speeds) THEN <<segments, cursor>>
    ELSE LET speed_start == speeds[i][1]
             speed_end == speeds[i][2]
             speed_value == speeds[i][3]
             overlap_start == Max(keep_start, speed_start)
             overlap_end == Min(keep_end, speed_end)
         IN  IF speed_end <= keep_start
             THEN WalkSpeedsStaleCursor(keep_start, keep_end, speeds, i + 1, cursor, segments)
             ELSE IF speed_start >= keep_end
             THEN <<segments, cursor>>
             ELSE IF overlap_end <= overlap_start
             THEN WalkSpeedsStaleCursor(keep_start, keep_end, speeds, i + 1, cursor, segments)
             ELSE WalkSpeedsStaleCursor(keep_start, keep_end, speeds, i + 1, cursor,
                      Append(IF overlap_start > cursor
                             THEN Append(segments, <<cursor, overlap_start, RateUnit>>)
                             ELSE segments,
                             <<overlap_start, overlap_end, speed_value>>))

\* The walk without the clipping of lines 147-148: a speed range that reaches
\* into the keep range is emitted whole.
RECURSIVE WalkSpeedsUnclipped(_, _, _, _, _, _)
WalkSpeedsUnclipped(keep_start, keep_end, speeds, i, cursor, segments) ==
    IF i > Len(speeds) THEN <<segments, cursor>>
    ELSE LET speed_start == speeds[i][1]
             speed_end == speeds[i][2]
             speed_value == speeds[i][3]
             overlap_start == speed_start
             overlap_end == speed_end
         IN  IF speed_end <= keep_start
             THEN WalkSpeedsUnclipped(keep_start, keep_end, speeds, i + 1, cursor, segments)
             ELSE IF speed_start >= keep_end
             THEN <<segments, cursor>>
             ELSE IF overlap_end <= overlap_start
             THEN WalkSpeedsUnclipped(keep_start, keep_end, speeds, i + 1, cursor, segments)
             ELSE WalkSpeedsUnclipped(keep_start, keep_end, speeds, i + 1, overlap_end,
                      Append(IF overlap_start > cursor
                             THEN Append(segments, <<cursor, overlap_start, RateUnit>>)
                             ELSE segments,
                             <<overlap_start, overlap_end, speed_value>>))

\* The walk with overlap_start taken as speed_start, without the max of line 147.
RECURSIVE WalkSpeedsFromSpeedStart(_, _, _, _, _, _)
WalkSpeedsFromSpeedStart(keep_start, keep_end, speeds, i, cursor, segments) ==
    IF i > Len(speeds) THEN <<segments, cursor>>
    ELSE LET speed_start == speeds[i][1]
             speed_end == speeds[i][2]
             speed_value == speeds[i][3]
             overlap_start == speed_start
             overlap_end == Min(keep_end, speed_end)
         IN  IF speed_end <= keep_start
             THEN WalkSpeedsFromSpeedStart(keep_start, keep_end, speeds, i + 1, cursor, segments)
             ELSE IF speed_start >= keep_end
             THEN <<segments, cursor>>
             ELSE IF overlap_end <= overlap_start
             THEN WalkSpeedsFromSpeedStart(keep_start, keep_end, speeds, i + 1, cursor, segments)
             ELSE WalkSpeedsFromSpeedStart(keep_start, keep_end, speeds, i + 1, overlap_end,
                      Append(IF overlap_start > cursor
                             THEN Append(segments, <<cursor, overlap_start, RateUnit>>)
                             ELSE segments,
                             <<overlap_start, overlap_end, speed_value>>))

\* main.py:141-155: the walk of the sorted speed ranges over one keep range;
\* returns <<segments, cursor>>
RECURSIVE WalkSpeeds(_, _, _, _, _, _)
WalkSpeeds(keep_start, keep_end, speeds, i, cursor, segments) ==
    IF i > Len(speeds) THEN <<segments, cursor>>
    ELSE LET speed_start == speeds[i][1]
             speed_end == speeds[i][2]
             speed_value == speeds[i][3]
             overlap_start == Max(keep_start, speed_start)
             overlap_end == Min(keep_end, speed_end)
         IN  IF speed_end <= keep_start
             THEN WalkSpeeds(keep_start, keep_end, speeds, i + 1, cursor, segments)
             ELSE IF speed_start >= keep_end
             THEN <<segments, cursor>>
             ELSE IF overlap_end <= overlap_start
             THEN WalkSpeeds(keep_start, keep_end, speeds, i + 1, cursor, segments)
             ELSE WalkSpeeds(keep_start, keep_end, speeds, i + 1, overlap_end,
                      Append(IF overlap_start > cursor
                             THEN Append(segments, <<cursor, overlap_start, RateUnit>>)
                             ELSE segments,
                             <<overlap_start, overlap_end, speed_value>>))

\* The emission with lines 157-158 left out: no filler after the last speed range.
RECURSIVE EmitSegmentsNoTail(_, _, _, _)
EmitSegmentsNoTail(keep, speeds, k, segments) ==
    IF k > Len(keep) THEN segments
    ELSE EmitSegmentsNoTail(keep, speeds, k + 1,
             WalkSpeeds(keep[k][1], keep[k][2], speeds, 1, keep[k][1], segments)[1])

\* main.py:138-158: the segments emitted for all keep ranges, before the filter
RECURSIVE EmitSegments(_, _, _, _)
EmitSegments(keep, speeds, k, segments) ==
    IF k > Len(keep) THEN segments
    ELSE LET keep_start == keep[k][1]
             keep_end == keep[k][2]
             walked == WalkSpeeds(keep_start, keep_end, speeds, 1, keep_start, segments)
             cursor == walked[2]
         IN  EmitSegments(keep, speeds, k + 1,
                 IF cursor < keep_end
                 THEN Append(walked[1], <<cursor, keep_end, RateUnit>>)
                 ELSE walked[1])

\* The filter with >= : a segment of exactly the minimum length survives.
DropShortInclusive(segments) ==
    SelectSeq(segments, LAMBDA seg : seg[2] - seg[1] >= MinSegTicks)

\* main.py:160: the filter of the emitted segments
DropShort(segments) ==
    SelectSeq(segments, LAMBDA seg : seg[2] - seg[1] > MinSegTicks)

\* main.py:129: the segments returned when there is no speed range
RECURSIVE UnitSegments(_)
UnitSegments(keep) ==
    IF keep = <<>> THEN <<>>
    ELSE <<<<keep[1][1], keep[1][2], RateUnit>>>> \o UnitSegments(Tail(keep))

\* _build_speed_segments: raised is TRUE when it raises HTTPException(400,
\* "Overlapping speed ranges are not supported."); keep is its local keep_ranges
\* and emitted its local segments before line 160.
_build_speed_segments(duration, trim_ranges, speed_ranges) ==
    LET keep == BuildKeepRanges(duration, trim_ranges)
        speed_ranges_sorted == SortedByStart(speed_ranges)
    IN  IF keep = <<>>
        THEN [raised |-> FALSE, keep |-> keep, emitted |-> <<>>, segments |-> <<>>]
        ELSE IF speed_ranges = <<>>
        THEN [raised |-> FALSE, keep |-> keep, emitted |-> UnitSegments(keep),
              segments |-> UnitSegments(keep)]
        ELSE IF HasOverlap(speed_ranges_sorted)
        THEN [raised |-> TRUE, keep |-> keep, emitted |-> <<>>, segments |-> <<>>]
        ELSE LET emitted == EmitSegments(keep, speed_ranges_sorted, 1, <<>>)
             IN  [raised |-> FALSE, keep |-> keep, emitted |-> emitted,
                  segments |-> DropShort(emitted)]

-----------------------------------------------------------------------------
(* Validation: validators.py, main.py *)

\* validate_trim (validators.py:33-41): the message of the ValueError it raises,
\* "" when it returns
validate_trim(start_sec, end_sec, duration) ==
    IF start_sec < 0 \/ end_sec < 0 THEN "Start and end must be non-negative."
    ELSE IF start_sec >= end_sec THEN "End must be greater than start."
    ELSE IF end_sec > duration THEN "End exceeds duration."
    ELSE ""

\* The start as submitted, without the min of lines 473 and 488.
NormStartAsGiven(item) == item[1]

\* main.py:473-474 and 488-489: float(min(start, end)), float(max(start, end))
NormStart(item) == Min(item[1], item[2])
NormEnd(item) == Max(item[1], item[2])

\* main.py:472-476: the trim loop; "" when every item passes validate_trim,
\* else the message of the first ValueError
RECURSIVE TrimLoopError(_, _)
TrimLoopError(items, duration) ==
    IF items = <<>> THEN ""
    ELSE LET msg == validate_trim(NormStart(items[1]), NormEnd(items[1]), duration)
         IN  IF msg # "" THEN msg ELSE TrimLoopError(Tail(items), duration)

\* main.py:471-476: normalized_ranges as appended by the loop
NormalizeTrims(items) == [i \in 1..Len(items) |-> <<NormStart(items[i]), NormEnd(items[i])>>]

\* main.py:487-494: the speed loop; the first failure as <<status, detail>>
\* (validate_trim's ValueError is not caught by the handler and reaches
\* fallback_exception_handler, main.py:571-573), <<0, "">> when every item passes
RECURSIVE SpeedLoopError(_, _)
SpeedLoopError(items, duration) ==
    IF items = <<>> THEN <<0, "">>
    ELSE LET msg == validate_trim(NormStart(items[1]), NormEnd(items[1]), duration)
         IN  IF msg # "" THEN <<500, msg>>
             ELSE IF items[1][3] <= 0 THEN <<400, "Speed must be greater than 0.">>
             ELSE SpeedLoopError(Tail(items), duration)

\* main.py:486-494: normalized_speed_ranges as appended by the loop
NormalizeSpeeds(items) ==
    [i \in 1..Len(items) |-> <<NormStart(items[i]), NormEnd(items[i]), items[i][3]>>]

\* The entire-timeline test with strict comparisons: a removal of exactly
\* [0, duration] passes.
EntireTimelineRemovedStrict(merged, duration) ==
    /\ merged # <<>>
    /\ Len(merged) = 1 /\ merged[1][1] < 0 /\ merged[1][2] > duration

\* main.py:496-500: the entire-timeline test of export_from_file
EntireTimelineRemoved(merged, duration) ==
    /\ merged # <<>>
    /\ merged[1][1] <= 0
    /\ merged[Len(merged)][2] >= duration
    /\ Len(merged) = 1 /\ merged[1][1] <= 0 /\ merged[1][2] >= duration

\* main.py:508-512: str(speed).strip().lower().removesuffix("x"), then float();
\* a text is a sequence of characters, the result -1 when float() raises
Lower(ch) == IF ch = "X" THEN "x" ELSE ch
DigitValue(ch) ==
    CASE ch = "0" -> 0 [] ch = "1" -> 1 [] ch = "2" -> 2 [] ch = "3" -> 3
      [] ch = "4" -> 4 [] OTHER -> -1
RECURSIVE ParseDigits(_, _)
ParseDigits(chars, acc) ==
    IF chars = <<>> THEN acc
    ELSE IF DigitValue(chars[1]) < 0 THEN -1
    ELSE ParseDigits(Tail(chars), 10 * acc + DigitValue(chars[1]))
ParseSpeedText(text) ==
    LET lowered == [i \in 1..Len(text) |-> Lower(text[i])]
        body == IF lowered # <<>> /\ lowered[Len(lowered)] = "x"
                THEN SubSeq(lowered, 1, Len(lowered) - 1) ELSE lowered
        n == IF body = <<>> THEN -1 ELSE ParseDigits(body, 0)
    IN  IF n < 0 THEN -1 ELSE n * RateUnit

\* The selection with speed_factor read before speed_multiplier.
SelectedSpeedFactorFirst(speed_multiplier, speed_factor, speed) ==
    IF speed_factor # <<>> THEN speed_factor[1]
    ELSE IF speed_multiplier # <<>> THEN speed_multiplier[1]
    ELSE IF speed # <<>> THEN ParseSpeedText(speed[1])
    ELSE RateUnit

\* An Optional form field is <<>> (None) or <<value>>.
\* main.py:502-512: selected_speed; -1 when float() raises ("Invalid speed value.")
SelectedSpeed(speed_multiplier, speed_factor, speed) ==
    IF speed_multiplier # <<>> THEN speed_multiplier[1]
    ELSE IF speed_factor # <<>> THEN speed_factor[1]
    ELSE IF speed # <<>> THEN ParseSpeedText(speed[1])
    ELSE RateUnit

-----------------------------------------------------------------------------
(* Render engine: video_tools.py.  An invocation is recorded as               *)
(* [call, kind, ranges, segments, filters, ok]: the function called, the kind *)
(* of ffmpeg plan it runs, the plan, and whether ffmpeg succeeded.            *)

Invocation(call, kind, ranges, segments, filters, ok) ==
    [call |-> call, kind |-> kind, ranges |-> ranges, segments |-> segments,
     filters |-> filters, ok |-> ok]

\* extract_range (video_tools.py:72-96)
extract_range(call, start_sec, end_sec, ok) ==
    Invocation(call, "extract", << <<start_sec, end_sec>> >>, <<>>, <<>>, ok)

\* remove_segment_and_stitch (video_tools.py:99-162): always a two-input concat
\* of trim=0:start and trim=start=end, the latter running to the end of the media
remove_segment_and_stitch(start_sec, end_sec, media_end, ok) ==
    Invocation("remove_segment_and_stitch", "concat",
               << <<0, start_sec>>, <<end_sec, media_end>> >>, <<>>, <<>>, ok)

\* The keep ranges with the gap test start_sec >= cursor.
StitchKeepRangesEmptyGaps(duration, trim_ranges) ==
    KeepLoopEmptyGaps(duration, trim_ranges, 1, 0, <<>>)

\* keep_ranges of remove_segments_and_stitch (video_tools.py:177-184)
StitchKeepRanges(duration, trim_ranges) == KeepLoop(duration, trim_ranges, 1, 0, <<>>)

\* remove_segments_and_stitch (video_tools.py:165-236); kind "raise" is the
\* RuntimeError of line 188, raised before ffmpeg runs
remove_segments_and_stitch(duration, trim_ranges, ok) ==
    IF trim_ranges = <<>>
    THEN extract_range("remove_segments_and_stitch", 0, duration, ok)
    ELSE LET keep == StitchKeepRanges(duration, trim_ranges)
         IN  IF keep = <<>>
             THEN Invocation("remove_segments_and_stitch", "raise", <<>>, <<>>, <<>>, FALSE)
             ELSE IF Len(keep) = 1
             THEN extract_range("remove_segments_and_stitch", keep[1][1], keep[1][2], ok)
             ELSE Invocation("remove_segments_and_stitch", "concat", keep, <<>>, <<>>, ok)

\* f"{x:.6f}": a rate in sixteenths printed with six decimals, in millionths
Format6(rate) == (rate * 1000000) \div RateUnit

\* The loops with >= and <= : a stage is split off even at the stage bounds.
RECURSIVE AtempoFactorsInclusive(_, _)
AtempoFactorsInclusive(remaining, factors) ==
    IF remaining >= RateTwo
    THEN AtempoFactorsInclusive(remaining \div 2, Append(factors, RateTwo))
    ELSE IF remaining <= RateHalf
    THEN AtempoFactorsInclusive(remaining * 2, Append(factors, RateHalf))
    ELSE Append(factors, remaining)

\* _build_atempo_chain (video_tools.py:239-250): the factors, in sixteenths,
\* before the clamp and the formatting of line 250
RECURSIVE AtempoFactors(_, _)
AtempoFactors(remaining, factors) ==
    IF remaining > RateTwo THEN AtempoFactors(remaining \div 2, Append(factors, RateTwo))
    ELSE IF remaining < RateHalf
    THEN AtempoFactors(remaining * 2, Append(factors, RateHalf))
    ELSE Append(factors, remaining)

\* _build_atempo_chain: the atempo values of the chain, in millionths
_build_atempo_chain(speed) ==
    LET factors == AtempoFactors(speed, <<>>)
    IN  [i \in 1..Len(factors) |-> Format6(Max(RateHalf, Min(RateTwo, factors[i])))]

\* video_tools.py:268 with the floor of 0.25 left out
SpeedValueUnclamped(speed) == speed

\* video_tools.py:268: speed_value = max(0.25, float(speed))
SpeedValue(speed) == Max(RateQuarter, speed)

\* video_tools.py:267-280: the filters of one segment: the setpts divisor and,
\* when the media has audio, the atempo chain (<<>> without audio)
SegmentFilter(seg, include_audio) ==
    LET speed_value == SpeedValue(seg[3])
    IN  [start |-> seg[1], end |-> seg[2], setpts |-> Format6(speed_value),
         atempo |-> IF include_audio THEN _build_atempo_chain(speed_value) ELSE <<>>]

\* render_segments_with_speed (video_tools.py:253-311); kind "raise" is the
\* RuntimeError of line 261, raised before ffmpeg runs
render_segments_with_speed(segments, include_audio, ok) ==
    IF segments = <<>>
    THEN Invocation("render_segments_with_speed", "raise", <<>>, <<>>, <<>>, FALSE)
    ELSE Invocation("render_segments_with_speed", "variable_speed", <<>>, segments,
                    [i \in 1..Len(segments) |-> SegmentFilter(segments[i], include_audio)], ok)

\* apply_speed_multiplier (video_tools.py:314-347)
apply_speed_multiplier(speed_multiplier, ok) ==
    IF speed_multiplier <= 0
    THEN Invocation("apply_speed_multiplier", "raise", <<>>, <<>>, <<>>, FALSE)
    ELSE Invocation("apply_speed_multiplier", "speed_multiplier", <<>>,
                    <<>>, << [setpts |-> speed_multiplier] >>, ok)

-----------------------------------------------------------------------------
(* Sprite sheets and token estimates: video_tools.py:350-443,                 *)
(* services/token_service.py, services/media_service.py.  The image fields   *)
(* of a sheet (name, width, height, tile size) come from the engine's output *)
(* and are left out.                                                         *)

\* round(x, 3) of a time in ticks: the time in milliseconds (a tick is 5 ms)
round3(ticks) == 5 * ticks

\* The quotient rounded down instead of up.
FloorDiv(a, b) == a \div b

\* math.ceil(a / b) for positive b
CeilDiv(a, b) == (a + b - 1) \div b

\* The frames of one sheet with row and column exchanged.
SheetFramesTransposed(start_frame, frame_count, duration, interval_sec, columns) ==
    [j \in 1..frame_count |->
        LET i == j - 1
            timestamp == Min(duration, (start_frame + i) * interval_sec)
        IN  [index |-> start_frame + i, timestamp_sec |-> round3(timestamp),
             row |-> i % columns, col |-> i \div columns]]

\* video_tools.py:410-420: the frames of one sheet
SheetFrames(start_frame, frame_count, duration, interval_sec, columns) ==
    [j \in 1..frame_count |->
        LET i == j - 1
            timestamp == Min(duration, (start_frame + i) * interval_sec)
        IN  [index |-> start_frame + i, timestamp_sec |-> round3(timestamp),
             row |-> i \div columns, col |-> i % columns]]

\* The sheet whose end time is that of the last cell of a full sheet, unclamped.
SheetNominalEnd(sheet_index, duration, interval_sec, columns, frames_per_sheet, total_frames) ==
    LET start_frame == sheet_index * frames_per_sheet
        frame_count == Min(frames_per_sheet, total_frames - start_frame)
    IN  [sheet_index |-> sheet_index + 1,
         start_time_sec |-> round3(start_frame * interval_sec),
         end_time_sec |-> round3((start_frame + frames_per_sheet - 1) * interval_sec),
         frames |-> SheetFrames(start_frame, frame_count, duration, interval_sec, columns)]

\* video_tools.py:372-433: the sheet of the given 0-based index
Sheet(sheet_index, duration, interval_sec, columns, frames_per_sheet, total_frames) ==
    LET start_frame == sheet_index * frames_per_sheet
        frame_count == Min(frames_per_sheet, total_frames - start_frame)
        start_time_sec == start_frame * interval_sec
        end_time_sec == Min(duration, (start_frame + frame_count - 1) * interval_sec)
    IN  [sheet_index |-> sheet_index + 1,
         start_time_sec |-> round3(start_time_sec),
         end_time_sec |-> round3(end_time_sec),
         frames |-> SheetFrames(start_frame, frame_count, duration, interval_sec, columns)]

\* video_tools.py:360 with the floor of 0.1 left out
IntervalSecUnfloored(interval) == interval

\* video_tools.py:360: interval_sec = max(0.1, float(interval_sec))
IntervalSec(interval) == Max(MinIntervalTicks, interval)

\* The function with the frames counted by the ceiling of duration / interval:
\* one frame more whenever the interval does not divide the duration.
generate_sprite_sheets_ceil(duration, interval, cols, rws) ==
    LET interval_sec == IntervalSec(interval)
        columns == Max(1, cols)
        rows == Max(1, rws)
        total_frames == Max(1, CeilDiv(duration, interval_sec) + 1)
        frames_per_sheet == columns * rows
        sheet_count == Max(1, CeilDiv(total_frames, frames_per_sheet))
    IN  [duration_sec |-> round3(duration), interval_sec |-> interval_sec,
         columns |-> columns, rows |-> rows, total_frames |-> total_frames,
         sheets |-> [n \in 1..sheet_count |->
                        Sheet(n - 1, duration, interval_sec, columns, frames_per_sheet,
                              total_frames)]]

\* generate_sprite_sheets (video_tools.py:350-443): the dict it returns when
\* every ffmpeg run succeeds
generate_sprite_sheets(duration, interval, cols, rws) ==
    LET interval_sec == IntervalSec(interval)
        columns == Max(1, cols)
        rows == Max(1, rws)
        total_frames == Max(1, (duration \div interval_sec) + 1)
        frames_per_sheet == columns * rows
        sheet_count == Max(1, CeilDiv(total_frames, frames_per_sheet))
    IN  [duration_sec |-> round3(duration), interval_sec |-> interval_sec,
         columns |-> columns, rows |-> rows, total_frames |-> total_frames,
         sheets |-> [n \in 1..sheet_count |->
                        Sheet(n - 1, duration, interval_sec, columns, frames_per_sheet,
                              total_frames)]]

\* estimate_tokens (services/token_service.py:8-47); duration * 180 with the
\* duration in ticks of 1/200 s is ticks * 9 / 10
estimate_tokens(duration, interval_sec, columns, rows, thumb_width) ==
    LET total_frames == Max(1, (duration \div interval_sec) + 1)
        frames_per_sheet == Max(1, columns * rows)
        sheet_count == Max(1, CeilDiv(total_frames, frames_per_sheet))
        direct_video_tokens_est == ((duration * 9) \div 10) + 400
        per_frame_tokens == Max(45, (85 * thumb_width) \div 256)
        sprite_tokens_est == total_frames * per_frame_tokens + sheet_count * 40 + 250
        direct == Max(direct_video_tokens_est, 1)
    IN  [duration_sec |-> round3(duration),
         direct_video_tokens_est |-> direct_video_tokens_est,
         sprite_tokens_est |-> sprite_tokens_est,
         total_frames |-> total_frames, sheet_count |-> sheet_count,
         recommendation |-> IF 10 * sprite_tokens_est <= 7 * direct THEN "sprites"
                            ELSE IF 10 * sprite_tokens_est <= 11 * direct THEN "similar"
                            ELSE "direct"]

\* validate_sprite_params (services/media_service.py:11-15): the message of the
\* ValueError it raises, "" when it returns
validate_sprite_params(interval_sec, columns, rows) ==
    IF interval_sec <= 0 THEN "interval_sec must be greater than 0."
    ELSE IF columns <= 0 \/ rows <= 0 THEN "columns and rows must be greater than 0."
    ELSE ""

-----------------------------------------------------------------------------
(* Handlers: main.py.  A handler's outcome is the record of the values it     *)
(* leaves: the response and the locals the request computed before it ended.  *)

Unset ==
    [status |-> 0, detail |-> "", renders |-> <<>>, duration_sec |-> 0,
     normalized_ranges |-> <<>>, merged_ranges |-> <<>>,
     normalized_speed_ranges |-> <<>>, keep_ranges |-> <<>>, speed_segments |-> <<>>,
     intent |-> <<>>, form |-> <<>>, upload_exists |-> FALSE, outputs |-> 0,
     sprite_params |-> <<>>, analysis |-> <<>>]

Fail(o, code, msg) == [o EXCEPT !.status = code, !.detail = msg]

HasSpeedChange(segments) == \E i \in 1..Len(segments) : segments[i][3] # RateUnit

\* The export that renders the whole source before it learns that the speed
\* ranges overlap.
ExportRenderBeforeOverlapCheck(o, duration, merged, speeds, selected_speed, engine) ==
    LET built == _build_speed_segments(duration, merged, speeds)
        first == extract_range("extract_range", 0, duration, TRUE)
        rendered == [o EXCEPT !.keep_ranges = built.keep, !.speed_segments = built.segments,
                              !.upload_exists = FALSE, !.renders = <<first>>, !.outputs = 1]
    IN  IF built.raised
        THEN Fail(rendered, 400, "Overlapping speed ranges are not supported.")
        ELSE [rendered EXCEPT !.status = 200]

\* export_from_file, main.py:517-562: the plan is compiled and rendered.
\* engine.fail_at names the external step that fails (1 the first render, 2 the
\* speed multiplier, 3 the final probe; 0 none).
ExportRender(o, duration, merged, speeds, selected_speed, engine) ==
    LET built == _build_speed_segments(duration, merged, speeds)
        planned == [o EXCEPT !.keep_ranges = built.keep, !.speed_segments = built.segments,
                             !.upload_exists = FALSE]
        first == IF built.segments # <<>> /\ HasSpeedChange(built.segments)
                 THEN render_segments_with_speed(built.segments, engine.include_audio,
                                                 engine.fail_at # 1)
                 ELSE IF merged # <<>>
                 THEN remove_segments_and_stitch(duration, merged, engine.fail_at # 1)
                 ELSE extract_range("extract_range", 0, duration, engine.fail_at # 1)
        second == apply_speed_multiplier(selected_speed, engine.fail_at # 2)
    IN  IF built.raised
        THEN Fail(planned, 400, "Overlapping speed ranges are not supported.")
        ELSE IF ~first.ok
        THEN Fail([planned EXCEPT !.renders = <<first>>], 500, "Export failed")
        ELSE IF selected_speed > RateUnit /\ speeds = <<>>
        THEN IF ~second.ok
             THEN Fail([planned EXCEPT !.renders = <<first, second>>, !.outputs = 1],
                       500, "Export failed")
             ELSE IF engine.fail_at = 3
             THEN Fail([planned EXCEPT !.renders = <<first, second>>, !.outputs = 1],
                       500, "Export failed")
             ELSE [planned EXCEPT !.renders = <<first, second>>, !.outputs = 1,
                                  !.status = 200]
        ELSE IF engine.fail_at = 3
        THEN Fail([planned EXCEPT !.renders = <<first>>, !.outputs = 1], 500, "Export failed")
        ELSE [planned EXCEPT !.renders = <<first>>, !.outputs = 1, !.status = 200]

\* export_from_file, main.py:443-568.  file.too_large: the body exceeds
\* MAX_FILE_SIZE_MB; file.duration: what ffprobe reports, 0 for invalid media.
export_from_file(file, form, engine) ==
    LET duration == file.duration
        received == [Unset EXCEPT !.form = <<form>>]
        saved == [received EXCEPT !.upload_exists = TRUE, !.duration_sec = duration]
        trim_error == TrimLoopError(form.trim_ranges, duration)
        normalized == SortedByStart(NormalizeTrims(form.trim_ranges))
        merged == _merge_ranges(normalized)
        trimmed == [saved EXCEPT !.normalized_ranges = normalized, !.merged_ranges = merged]
        speed_error == SpeedLoopError(form.speed_ranges, duration)
        speeds == NormalizeSpeeds(form.speed_ranges)
        ranged == [trimmed EXCEPT !.normalized_speed_ranges = speeds]
        selected_speed == SelectedSpeed(form.speed_multiplier, form.speed_factor, form.speed)
    IN  IF file.too_large THEN Fail(received, 413, "File exceeds")
        ELSE IF duration <= 0 THEN Fail(received, 400, "Invalid media file")
        ELSE IF duration > MAX_VIDEO_DURATION_SEC THEN Fail(saved, 400, "exceeds maximum")
        ELSE IF ~form.trim_json_ok THEN Fail(saved, 400, "Invalid trim_ranges JSON")
        ELSE IF trim_error # "" THEN Fail(saved, 500, trim_error)
        ELSE IF ~form.speed_json_ok THEN Fail(trimmed, 400, "Invalid speed_ranges JSON")
        ELSE IF speed_error[1] # 0 THEN Fail(trimmed, speed_error[1], speed_error[2])
        ELSE IF EntireTimelineRemoved(merged, duration)
        THEN Fail(ranged, 400, "Cannot remove the entire video range.")
        ELSE IF selected_speed < 0 THEN Fail(ranged, 400, "Invalid speed value.")
        ELSE IF selected_speed \notin {RateUnit, RateTwo}
        THEN Fail(ranged, 400, "Only 1x and 2x are supported in v0.")
        ELSE ExportRender(ranged, duration, merged, speeds, selected_speed, engine)

\* edit_request, main.py:233-270: the operation of the intent is carried out;
\* the result has status 0 when no exception was raised
EditApply(o, duration, it, engine) ==
    LET ok == engine.fail_at # 1
        built == _build_speed_segments(duration, <<>>,
                     << <<it.start_sec, it.end_sec, it.speed_multiplier>> >>)
        render == render_segments_with_speed(built.segments, engine.include_audio, ok)
        Done(inv) == IF inv.ok THEN [o EXCEPT !.renders = <<inv>>, !.outputs = 1]
                     ELSE Fail([o EXCEPT !.renders = <<inv>>], 500, "render failed")
    IN  IF it.action = "trim_video"
        THEN IF it.operation \notin {"remove_segment", "extract_range"}
             THEN Fail(o, 400, "Unsupported trim operation")
             ELSE IF it.operation = "remove_segment"
             THEN IF it.start_sec <= 0 /\ it.end_sec >= duration
                  THEN Fail(o, 400, "Cannot remove the entire video range.")
                  ELSE Done(remove_segment_and_stitch(it.start_sec, it.end_sec, duration, ok))
             ELSE Done(extract_range("extract_range", it.start_sec, it.end_sec, ok))
        ELSE IF it.action = "speed_video"
        THEN IF it.operation # "apply_speed_range"
             THEN Fail(o, 400, "Unsupported speed operation")
             ELSE IF it.speed_multiplier <= 0
             THEN Fail(o, 400, "speed_multiplier must be greater than 0.")
             ELSE IF built.raised
             THEN Fail(o, 400, "Overlapping speed ranges are not supported.")
             ELSE LET planned ==
                          [o EXCEPT !.normalized_speed_ranges =
                                        << <<it.start_sec, it.end_sec, it.speed_multiplier>> >>,
                                    !.keep_ranges = built.keep,
                                    !.speed_segments = built.segments]
                  IN  IF render.ok
                      THEN [planned EXCEPT !.renders = <<render>>, !.outputs = 1]
                      ELSE Fail([planned EXCEPT !.renders = <<render>>], 500, "render failed")
        ELSE Fail(o, 400, "Unsupported action")

\* edit_request, main.py:215-288.  it.error is the exception parse_intent raises:
\* "" none, "ValueError", or "Exception" for any other.
edit_request(sessions, video_id, it, engine) ==
    IF video_id \notin 1..Len(sessions) THEN Fail(Unset, 404, "Unknown video_id")
    ELSE LET duration == sessions[video_id]
             known == [Unset EXCEPT !.duration_sec = duration]
             parsed == [known EXCEPT !.intent = <<it>>]
             trim_error == validate_trim(it.start_sec, it.end_sec, duration)
             applied == EditApply(parsed, duration, it, engine)
         IN  IF it.error = "ValueError" THEN Fail(known, 400, "Could not parse prompt")
             ELSE IF it.error # "" THEN Fail(known, 500, "parse_intent failed")
             ELSE IF trim_error # "" THEN Fail(parsed, 400, trim_error)
             ELSE IF applied.status # 0 THEN applied
             ELSE [applied EXCEPT !.status = 200]

\* The upload without the call of _enforce_max_duration (main.py:199).
upload_video_unbounded(file) ==
    IF file.too_large THEN Fail(Unset, 413, "File exceeds")
    ELSE IF file.duration <= 0 THEN Fail(Unset, 400, "Invalid media file")
    ELSE [Unset EXCEPT !.upload_exists = TRUE, !.duration_sec = file.duration, !.status = 200]

\* upload_video, main.py:184-212, up to the registration of the session
upload_video(file) ==
    LET saved == [Unset EXCEPT !.upload_exists = TRUE, !.duration_sec = file.duration]
    IN  IF file.too_large THEN Fail(Unset, 413, "File exceeds")
        ELSE IF file.duration <= 0 THEN Fail(Unset, 400, "Invalid media file")
        ELSE IF file.duration > MAX_VIDEO_DURATION_SEC THEN Fail(saved, 400, "exceeds maximum")
        ELSE [saved EXCEPT !.status = 200]

\* analyze_sprites, main.py:291-376.  save_upload_file is called without a size
\* limit; sprites_ok: every ffmpeg run of generate_sprite_sheets succeeds.
analyze_sprites(file, params, sprites_ok) ==
    LET duration == file.duration
        given == [Unset EXCEPT !.sprite_params = <<params>>]
        saved == [given EXCEPT !.upload_exists = TRUE, !.duration_sec = duration]
        param_error == validate_sprite_params(params.interval_sec, params.columns, params.rows)
        done == [saved EXCEPT !.upload_exists = FALSE]
    IN  IF param_error # "" THEN Fail(given, 400, param_error)
        ELSE IF duration <= 0 THEN Fail(given, 400, "Invalid media file")
        ELSE IF duration > MAX_VIDEO_DURATION_SEC THEN Fail(saved, 400, "exceeds maximum")
        ELSE IF ~sprites_ok THEN Fail(done, 500, "Sprite analysis failed")
        ELSE [done EXCEPT !.status = 200,
                          !.analysis = <<generate_sprite_sheets(duration, params.interval_sec,
                                                                params.columns, params.rows)>>]

\* analyze_token_estimate_from_file, main.py:390-419
analyze_token_estimate_from_file(file, params) ==
    LET duration == file.duration
        given == [Unset EXCEPT !.sprite_params = <<params>>]
        probed == [given EXCEPT !.duration_sec = duration]
        param_error == validate_sprite_params(params.interval_sec, params.columns, params.rows)
    IN  IF param_error # "" THEN Fail(given, 400, param_error)
        ELSE IF duration <= 0 THEN Fail(given, 400, "Invalid media file")
        ELSE IF duration > MAX_VIDEO_DURATION_SEC THEN Fail(probed, 400, "exceeds maximum")
        ELSE [probed EXCEPT !.status = 200,
                            !.analysis = <<estimate_tokens(duration, params.interval_sec,
                                                           params.columns, params.rows,
                                                           params.thumb_width)>>]

-----------------------------------------------------------------------------
(* Inputs of the handlers *)

\* the ranges between time points: 0 <= start < end <= Duration
GridRanges == {<<Tick(r[1]), Tick(r[2])>> : r \in {q \in (0..MaxPt) \X (0..MaxPt) : q[1] < q[2]}}

\* submitted ranges that violate 0 <= start < end <= duration: a negative
\* start, an empty range, start after end, an end beyond the duration
BadRanges == {<<-1, 3>>, <<3, 3>>, <<6, 3>>, <<0, Duration + 1>>}

TrimItems == GridRanges \cup BadRanges
SpeedItems ==
    {<<r[1], r[2], v>> : r \in GridRanges, v \in {RateUnit, RateTwo}}
    \cup {<<r[1], r[2], RateTwo>> : r \in BadRanges}
    \cup {<<0, 3, 0>>}

\* what ffprobe reports for the uploaded file: 0 stands for invalid media
Files ==
    [too_large : {FALSE}, duration : {0, Duration, MAX_VIDEO_DURATION_SEC + 1}]
    \cup {[too_large |-> TRUE, duration |-> Duration]}

SpeedNumbers == {<<>>} \cup {<<v>> : v \in {RateUnit, RateTwo, 3 * RateUnit}}
SpeedTexts == {<<>>} \cup {<<t>> : t \in {<<"2", "x">>, <<"3", "X">>, <<"1">>, <<"x">>}}

FieldCount(f) == IF f = <<>> THEN 0 ELSE 1

\* the number of parts of a form: its ranges and its speed fields
FormSize(t, sr, m, f, x) == Len(t) + Len(sr) + FieldCount(m) + FieldCount(f) + FieldCount(x)

Form(t, sr, m, f, x) ==
    [trim_json_ok |-> TRUE, trim_ranges |-> t, speed_json_ok |-> TRUE,
     speed_ranges |-> sr, speed_multiplier |-> m, speed_factor |-> f, speed |-> x]

EmptyForm == Form(<<>>, <<>>, <<>>, <<>>, <<>>)

\* forms whose trim_ranges or speed_ranges text is not JSON
BrokenForms ==
    {[EmptyForm EXCEPT !.trim_json_ok = FALSE], [EmptyForm EXCEPT !.speed_json_ok = FALSE]}

\* The render engine as the request meets it: whether the media has an audio
\* stream, and which external step fails.  For a request that would succeed
\* with o, the choices that make a difference: audio where a variable-speed
\* render reads it, a failure at a step the request performs.
NoFailure == [include_audio |-> TRUE, fail_at |-> 0]
Engines(o, last_step) ==
    [include_audio : IF \E i \in 1..Len(o.renders) : o.renders[i].kind = "variable_speed"
                     THEN BOOLEAN ELSE {TRUE},
     fail_at : {0, 1, last_step} \cup (IF Len(o.renders) = 2 THEN {2} ELSE {})]

\* the sprite parameters of a form: valid ones, and a non-positive interval,
\* column count or row count
SpriteForms ==
    [interval_sec : {0, 1, 5}, columns : {0, 2}, rows : {0, 1}, thumb_width : {64, 256}]

FileAccepted(file) ==
    ~file.too_large /\ file.duration > 0 /\ file.duration <= MAX_VIDEO_DURATION_SEC

Intents ==
    [error : {""}, action : {"trim_video", "speed_video", "crop_video"},
     operation : {"remove_segment", "extract_range", "apply_speed_range", "reverse"},
     start_sec : {r[1] : r \in TrimItems}, end_sec : {r[2] : r \in TrimItems},
     speed_multiplier : {0, RateUnit, RateTwo}]

FailedIntents ==
    [error : {"ValueError", "Exception"}, action : {"trim_video"},
     operation : {"remove_segment"}, start_sec : {0}, end_sec : {0},
     speed_multiplier : {RateTwo}]

-----------------------------------------------------------------------------
(* The service: requests are handled one at a time *)

Leave(o) ==
    /\ status' = o.status
    /\ detail' = o.detail
    /\ renders' = o.renders
    /\ duration_sec' = o.duration_sec
    /\ normalized_ranges' = o.normalized_ranges
    /\ merged_ranges' = o.merged_ranges
    /\ normalized_speed_ranges' = o.normalized_speed_ranges
    /\ keep_ranges' = o.keep_ranges
    /\ speed_segments' = o.speed_segments
    /\ intent' = o.intent
    /\ submitted' = o.form
    /\ upload_exists' = o.upload_exists
    /\ outputs' = o.outputs
    /\ sprite_params' = o.sprite_params
    /\ analysis' = o.analysis

Init ==
    /\ pc = "idle"
    /\ endpoint = ""
    /\ status = 0
    /\ detail = ""
    /\ renders = <<>>
    /\ duration_sec = 0
    /\ normalized_ranges = <<>>
    /\ merged_ranges = <<>>
    /\ normalized_speed_ranges = <<>>
    /\ keep_ranges = <<>>
    /\ speed_segments = <<>>
    /\ intent = <<>>
    /\ submitted = <<>>
    /\ video_sessions = <<>>
    /\ upload_exists = FALSE
    /\ outputs = 0
    /\ sprite_params = <<>>
    /\ analysis = <<>>
    /\ chain_speed = 0
    /\ atempo_chain = <<>>
    /\ remerged = <<>>
    /\ chain_remaining = 0
    /\ chain_factors = <<>>

UploadVideo ==
    /\ pc = "idle"
    /\ Len(video_sessions) < MaxSessions
    /\ \E file \in Files :
         \E o \in {upload_video(file)} :
             /\ Leave(o)
             /\ video_sessions' = IF o.status = 200
                                  THEN Append(video_sessions, file.duration)
                                  ELSE video_sessions
    /\ pc' = "done"
    /\ endpoint' = "upload_video"
    /\ UNCHANGED <<chain_speed, atempo_chain, remerged, chain_remaining, chain_factors>>

\* one request with the given file and form; the engine's failures are drawn
\* only for a request that reaches the render
ExportWith(file, form) ==
    \E o \in {export_from_file(file, form, NoFailure)} :
        IF o.status = 200
        THEN \E engine \in Engines(o, 3) :
               \E served \in {export_from_file(file, form, engine)} : Leave(served)
        ELSE Leave(o)

\* the forms are those of at most MaxReq parts, and those with broken JSON
ExportFromFile ==
    /\ pc = "idle"
    /\ \E file \in Files :
         IF ~FileAccepted(file) THEN ExportWith(file, EmptyForm)
         ELSE \/ \E form \in BrokenForms : ExportWith(file, form)
              \/ \E t \in SeqsUpTo(TrimItems, MaxReq) :
                   \E sr \in SeqsUpTo(SpeedItems, MaxReq - Len(t)) :
                     \E m \in SpeedNumbers, f \in SpeedNumbers, x \in SpeedTexts :
                       /\ FormSize(t, sr, m, f, x) <= MaxReq
                       /\ ExportWith(file, Form(t, sr, m, f, x))
    /\ pc' = "done"
    /\ endpoint' = "export_from_file"
    /\ UNCHANGED <<video_sessions, chain_speed, atempo_chain, remerged, chain_remaining, chain_factors>>

EditRequest ==
    /\ pc = "idle"
    /\ \E video_id \in 1..MaxSessions :
         \E it \in IF video_id \in 1..Len(video_sessions)
                   THEN Intents \cup FailedIntents ELSE FailedIntents :
           \E o \in {edit_request(video_sessions, video_id, it, NoFailure)} :
               IF o.status = 200
               THEN \E engine \in Engines(o, 1) :
                      \E served \in {edit_request(video_sessions, video_id, it, engine)} :
                        Leave(served)
               ELSE Leave(o)
    /\ pc' = "done"
    /\ endpoint' = "edit_request"
    /\ UNCHANGED <<video_sessions, chain_speed, atempo_chain, remerged, chain_remaining, chain_factors>>

AnalyzeSprites ==
    /\ pc = "idle"
    /\ \E file \in Files, params \in SpriteForms, sprites_ok \in BOOLEAN :
         \E o \in {analyze_sprites(file, params, sprites_ok)} : Leave(o)
    /\ pc' = "done"
    /\ endpoint' = "analyze_sprites"
    /\ UNCHANGED <<video_sessions, chain_speed, atempo_chain, remerged, chain_remaining, chain_factors>>

AnalyzeTokenEstimateFromFile ==
    /\ pc = "idle"
    /\ \E file \in Files, params \in SpriteForms :
         \E o \in {analyze_token_estimate_from_file(file, params)} : Leave(o)
    /\ pc' = "done"
    /\ endpoint' = "analyze_token_estimate_from_file"
    /\ UNCHANGED <<video_sessions, chain_speed, atempo_chain, remerged, chain_remaining, chain_factors>>

\* the response is sent; the request's locals are gone
Respond ==
    /\ pc = "done"
    /\ Leave(Unset)
    /\ pc' = "idle"
    /\ endpoint' = ""
    /\ UNCHANGED <<video_sessions, chain_speed, atempo_chain, remerged, chain_remaining, chain_factors>>

Next ==
    \/ UploadVideo
    \/ ExportFromFile
    \/ EditRequest
    \/ AnalyzeSprites
    \/ AnalyzeTokenEstimateFromFile
    \/ Respond

Spec == Init /\ [][Next]_vars

-----------------------------------------------------------------------------
(* Calls of the pure functions, on inputs drawn from bounded sets *)

Cleared ==
    /\ endpoint = ""
    /\ status = 0
    /\ detail = ""
    /\ renders = <<>>
    /\ intent = <<>>
    /\ submitted = <<>>
    /\ video_sessions = <<>>
    /\ upload_exists = FALSE
    /\ outputs = 0
    /\ analysis = <<>>

\* _merge_ranges on every list of at most MaxLen ranges between time points, in any order
InitMerge ==
    /\ pc = "input"
    /\ normalized_ranges \in SeqsUpTo(GridRanges, MaxLen)
    /\ merged_ranges = <<>>
    /\ duration_sec = Duration
    /\ normalized_speed_ranges = <<>>
    /\ keep_ranges = <<>>
    /\ speed_segments = <<>>
    /\ Cleared
    /\ sprite_params = <<>>
    /\ chain_speed = 0
    /\ atempo_chain = <<>>
    /\ remerged = <<>>
    /\ chain_remaining = 0
    /\ chain_factors = <<>>

MergeCall ==
    /\ pc = "input"
    /\ merged_ranges' = _merge_ranges(normalized_ranges)
    /\ pc' = "merged"
    /\ UNCHANGED <<endpoint, status, detail, renders, duration_sec, normalized_ranges,
                   normalized_speed_ranges, keep_ranges, speed_segments, intent, submitted,
                   video_sessions, upload_exists, outputs, sprite_params, analysis,
                   chain_speed, atempo_chain, remerged, chain_remaining, chain_factors>>

NextMerge == MergeCall

SpecMerge == InitMerge /\ [][NextMerge]_vars

\* _merge_ranges on every list of at most MaxLen items of TrimItems (ranges
\* between time points, and ranges that are empty, reversed or out of bounds),
\* and then on the list it returned
InitRemerge ==
    /\ pc = "input"
    /\ normalized_ranges \in SeqsUpTo(TrimItems, MaxLen)
    /\ merged_ranges = <<>>
    /\ duration_sec = Duration
    /\ normalized_speed_ranges = <<>>
    /\ keep_ranges = <<>>
    /\ speed_segments = <<>>
    /\ Cleared
    /\ sprite_params = <<>>
    /\ chain_speed = 0
    /\ atempo_chain = <<>>
    /\ remerged = <<>>
    /\ chain_remaining = 0
    /\ chain_factors = <<>>

RemergeCall ==
    /\ pc = "merged"
    /\ remerged' = _merge_ranges(merged_ranges)
    /\ pc' = "remerged"
    /\ UNCHANGED <<endpoint, status, detail, renders, duration_sec, normalized_ranges,
                   merged_ranges, normalized_speed_ranges, keep_ranges, speed_segments,
                   intent, submitted, video_sessions, upload_exists, outputs, sprite_params,
                   analysis, chain_speed, atempo_chain, chain_remaining, chain_factors>>

NextRemerge == MergeCall \/ RemergeCall

SpecRemerge == InitRemerge /\ [][NextRemerge]_vars

\* the points of P in ascending order, paired into ranges
RECURSIVE PairUp(_)
PairUp(P) ==
    IF P = {} THEN <<>>
    ELSE LET a == CHOOSE x \in P : \A y \in P : x <= y
             b == CHOOSE x \in P \ {a} : \A y \in P \ {a} : x <= y
         IN  << <<a, b>> >> \o PairUp(P \ {a, b})

\* the lists _merge_ranges returns for validated ranges (sorted, each range
\* starting after the previous one ends), the one that removes the entire
\* timeline left out: export_from_file rejects it before the call
MergedLists ==
    {PairUp({Tick(k) : k \in Q}) : Q \in {Q \in SUBSET (0..MaxPt) : Cardinality(Q) % 2 = 0}}
    \ {<< <<0, Duration>> >>}

NonOverlapping(speeds) ==
    \A i \in 1..Len(speeds), j \in 1..Len(speeds) :
        i # j => (speeds[i][2] <= speeds[j][1] \/ speeds[j][2] <= speeds[i][1])

BuildSpeedItems ==
    {<<r[1], r[2], v>> : r \in GridRanges, v \in {RateUnit, RateTwo}}

\* _build_speed_segments on every merged trim list and every list, in any order,
\* of at most MaxSpeeds pairwise non-overlapping speed ranges
InitBuild ==
    /\ pc = "input"
    /\ duration_sec = Duration
    /\ merged_ranges \in MergedLists
    /\ normalized_speed_ranges \in
           {sq \in SeqsUpTo(BuildSpeedItems, MaxSpeeds) : NonOverlapping(sq)}
    /\ normalized_ranges = merged_ranges
    /\ keep_ranges = <<>>
    /\ speed_segments = <<>>
    /\ Cleared
    /\ sprite_params = <<>>
    /\ chain_speed = 0
    /\ atempo_chain = <<>>
    /\ remerged = <<>>
    /\ chain_remaining = 0
    /\ chain_factors = <<>>

BuildCall ==
    /\ pc = "input"
    /\ LET built == _build_speed_segments(duration_sec, merged_ranges, normalized_speed_ranges)
       IN  /\ ~built.raised
           /\ keep_ranges' = built.keep
           /\ speed_segments' = built.segments
    /\ pc' = "built"
    /\ UNCHANGED <<endpoint, status, detail, renders, duration_sec, normalized_ranges,
                   merged_ranges, normalized_speed_ranges, intent, submitted, video_sessions,
                   upload_exists, outputs, sprite_params, analysis, chain_speed, atempo_chain, remerged, chain_remaining, chain_factors>>

NextBuild == BuildCall

SpecBuild == InitBuild /\ [][NextBuild]_vars

\* _build_speed_segments and remove_segments_and_stitch on the same duration
\* and merged trim list: every list of MergedLists and the one that removes the
\* entire timeline, with at most one speed range for _build_speed_segments
InitKeep ==
    /\ pc = "input"
    /\ duration_sec = Duration
    /\ merged_ranges \in MergedLists \cup {<< <<0, Duration>> >>}
    /\ normalized_speed_ranges \in SeqsUpTo(BuildSpeedItems, 1)
    /\ normalized_ranges = merged_ranges
    /\ keep_ranges = <<>>
    /\ speed_segments = <<>>
    /\ Cleared
    /\ sprite_params = <<>>
    /\ chain_speed = 0
    /\ atempo_chain = <<>>
    /\ remerged = <<>>
    /\ chain_remaining = 0
    /\ chain_factors = <<>>

StitchCall ==
    /\ pc = "built"
    /\ renders' = <<remove_segments_and_stitch(duration_sec, merged_ranges, TRUE)>>
    /\ pc' = "stitched"
    /\ UNCHANGED <<endpoint, status, detail, duration_sec, normalized_ranges, merged_ranges,
                   normalized_speed_ranges, keep_ranges, speed_segments, intent, submitted,
                   video_sessions, upload_exists, outputs, sprite_params, analysis,
                   chain_speed, atempo_chain, remerged, chain_remaining, chain_factors>>

NextKeep == BuildCall \/ StitchCall

SpecKeep == InitKeep /\ [][NextKeep]_vars

\* rates from 1/16 to 16: the powers of two, and 0.75, 1.5, 3 and 6
TempoRates == {1, 2, 4, 8, 16, 32, 64, 128, 256} \cup {12, 24, 48, 96}

\* render_segments_with_speed on every plan of at most MaxSegs consecutive
\* segments of three ticks with rates of TempoRates
InitRender ==
    /\ pc = "input"
    /\ speed_segments \in
           {[i \in 1..Len(rs) |-> <<3 * (i - 1), 3 * i, rs[i]>>] : rs \in SeqsUpTo(TempoRates, MaxSegs)}
    /\ duration_sec = 3 * Len(speed_segments)
    /\ normalized_ranges = <<>>
    /\ merged_ranges = <<>>
    /\ normalized_speed_ranges = <<>>
    /\ keep_ranges = <<>>
    /\ Cleared
    /\ sprite_params = <<>>
    /\ chain_speed = 0
    /\ atempo_chain = <<>>
    /\ remerged = <<>>
    /\ chain_remaining = 0
    /\ chain_factors = <<>>

RenderCall ==
    /\ pc = "input"
    /\ \E include_audio \in BOOLEAN :
         renders' = <<render_segments_with_speed(speed_segments, include_audio, TRUE)>>
    /\ pc' = "rendered"
    /\ UNCHANGED <<endpoint, status, detail, duration_sec, normalized_ranges, merged_ranges,
                   normalized_speed_ranges, keep_ranges, speed_segments, intent, submitted,
                   video_sessions, upload_exists, outputs, sprite_params, analysis,
                   chain_speed, atempo_chain, remerged, chain_remaining, chain_factors>>

NextRender == RenderCall

SpecRender == InitRender /\ [][NextRender]_vars

\* a rate whose halvings down to 2.0 are whole sixteenths
RECURSIVE Halvable(_)
Halvable(r) == r <= RateTwo \/ (r % 2 = 0 /\ Halvable(r \div 2))

\* the rates from 1/16 to MaxRate that the sixteenths represent exactly
ChainRates == {r \in 1..(MaxRate * RateUnit) : Halvable(r)}

\* _build_atempo_chain on every rate of ChainRates
InitTempo ==
    /\ pc = "input"
    /\ chain_speed \in ChainRates
    /\ atempo_chain = <<>>
    /\ remerged = <<>>
    /\ chain_remaining = 0
    /\ chain_factors = <<>>
    /\ duration_sec = 0
    /\ normalized_ranges = <<>>
    /\ merged_ranges = <<>>
    /\ normalized_speed_ranges = <<>>
    /\ keep_ranges = <<>>
    /\ speed_segments = <<>>
    /\ sprite_params = <<>>
    /\ Cleared

TempoCall ==
    /\ pc = "input"
    /\ atempo_chain' = _build_atempo_chain(chain_speed)
    /\ pc' = "chained"
    /\ UNCHANGED <<endpoint, status, detail, renders, duration_sec, normalized_ranges,
                   merged_ranges, normalized_speed_ranges, keep_ranges, speed_segments,
                   intent, submitted, video_sessions, upload_exists, outputs, sprite_params, analysis,
                   chain_speed, remerged, chain_remaining, chain_factors>>

NextTempo == TempoCall

SpecTempo == InitTempo /\ [][NextTempo]_vars

\* float("inf"), above every finite rate: what float() and json.loads give for
\* a number too large for a float, such as 1e999 (main.py:490)
Infinity == 2 * MaxRate * RateUnit + 1

\* remaining /= 2.0 (video_tools.py:245): half of infinity is infinity
Halved(x) == IF x = Infinity THEN Infinity ELSE x \div 2

\* remaining /= 0.5 (video_tools.py:248)
Doubled(x) == IF x = Infinity THEN Infinity ELSE 2 * x

\* factors.append(f); only the first MaxChain factors of a running chain are
\* recorded
Appended(fs, f) == IF Len(fs) < MaxChain THEN Append(fs, f) ELSE fs

\* the rates of a segment: those of ChainRates, 0, a negative rate and infinity
PrepareRates == ChainRates \cup {0 - RateUnit, 0, Infinity}

\* The loops of _build_atempo_chain, one iteration at a time, for a segment of
\* every rate of PrepareRates
InitPrepare ==
    /\ pc = "input"
    /\ chain_speed \in PrepareRates
    /\ atempo_chain = <<>>
    /\ remerged = <<>>
    /\ chain_remaining = 0
    /\ chain_factors = <<>>
    /\ duration_sec = 0
    /\ normalized_ranges = <<>>
    /\ merged_ranges = <<>>
    /\ normalized_speed_ranges = <<>>
    /\ keep_ranges = <<>>
    /\ speed_segments = <<>>
    /\ sprite_params = <<>>
    /\ Cleared

\* video_tools.py:268 and 279: render_segments_with_speed calls
\* _build_atempo_chain(speed_value) for a segment of rate chain_speed
RenderPrepare ==
    /\ pc = "input"
    /\ chain_remaining' = SpeedValue(chain_speed)
    /\ chain_factors' = <<>>
    /\ pc' = "while_above"
    /\ UNCHANGED <<endpoint, status, detail, renders, duration_sec, normalized_ranges,
                   merged_ranges, normalized_speed_ranges, keep_ranges, speed_segments,
                   intent, submitted, video_sessions, upload_exists, outputs, sprite_params,
                   analysis, chain_speed, atempo_chain, remerged>>

\* video_tools.py:241-242: _build_atempo_chain called with a rate > 0
ChainCall ==
    /\ pc = "input"
    /\ chain_speed > 0
    /\ chain_remaining' = chain_speed
    /\ chain_factors' = <<>>
    /\ pc' = "while_above"
    /\ UNCHANGED <<endpoint, status, detail, renders, duration_sec, normalized_ranges,
                   merged_ranges, normalized_speed_ranges, keep_ranges, speed_segments,
                   intent, submitted, video_sessions, upload_exists, outputs, sprite_params,
                   analysis, chain_speed, atempo_chain, remerged>>

\* video_tools.py:243-245: one iteration of while remaining > 2.0
HalveStep ==
    /\ pc = "while_above"
    /\ chain_remaining > RateTwo
    /\ chain_factors' = Appended(chain_factors, RateTwo)
    /\ chain_remaining' = Halved(chain_remaining)
    /\ UNCHANGED <<pc, endpoint, status, detail, renders, duration_sec, normalized_ranges,
                   merged_ranges, normalized_speed_ranges, keep_ranges, speed_segments,
                   intent, submitted, video_sessions, upload_exists, outputs, sprite_params,
                   analysis, chain_speed, atempo_chain, remerged>>

\* video_tools.py:243: the first loop ends
LeaveHalving ==
    /\ pc = "while_above"
    /\ ~(chain_remaining > RateTwo)
    /\ pc' = "while_below"
    /\ UNCHANGED <<endpoint, status, detail, renders, duration_sec, normalized_ranges,
                   merged_ranges, normalized_speed_ranges, keep_ranges, speed_segments,
                   intent, submitted, video_sessions, upload_exists, outputs, sprite_params,
                   analysis, chain_speed, atempo_chain, remerged, chain_remaining,
                   chain_factors>>

\* video_tools.py:246-248: one iteration of while remaining < 0.5
DoubleStep ==
    /\ pc = "while_below"
    /\ chain_remaining < RateHalf
    /\ chain_factors' = Appended(chain_factors, RateHalf)
    /\ chain_remaining' = Doubled(chain_remaining)
    /\ UNCHANGED <<pc, endpoint, status, detail, renders, duration_sec, normalized_ranges,
                   merged_ranges, normalized_speed_ranges, keep_ranges, speed_segments,
                   intent, submitted, video_sessions, upload_exists, outputs, sprite_params,
                   analysis, chain_speed, atempo_chain, remerged>>

\* video_tools.py:246, 249-250: the second loop ends and the chain is returned
ChainReturn ==
    /\ pc = "while_below"
    /\ ~(chain_remaining < RateHalf)
    /\ atempo_chain' =
           LET all == Append(chain_factors, chain_remaining)
           IN  [i \in 1..Len(all) |-> Format6(Max(RateHalf, Min(RateTwo, all[i])))]
    /\ pc' = "chained"
    /\ UNCHANGED <<endpoint, status, detail, renders, duration_sec, normalized_ranges,
                   merged_ranges, normalized_speed_ranges, keep_ranges, speed_segments,
                   intent, submitted, video_sessions, upload_exists, outputs, sprite_params,
                   analysis, chain_speed, remerged, chain_remaining, chain_factors>>

NextPrepare ==
    RenderPrepare \/ ChainCall \/ HalveStep \/ LeaveHalving \/ DoubleStep \/ ChainReturn

\* a function that is running takes its next step
SpecPrepare == InitPrepare /\ [][NextPrepare]_vars /\ WF_vars(NextPrepare)

\* the intervals of the sprite calls, in ticks: below, at and above the floor
SpriteIntervals == {5, 10, MinIntervalTicks, 25, 30}

\* generate_sprite_sheets on every media of 5 to 5 * MaxSpriteDur ticks, every
\* interval of SpriteIntervals and every sheet of at most MaxCols by MaxRows
InitSprites ==
    /\ pc = "input"
    /\ duration_sec \in {5 * k : k \in 1..MaxSpriteDur}
    /\ sprite_params \in {<<p>> : p \in [interval_sec : SpriteIntervals, columns : 1..MaxCols,
                                          rows : 1..MaxRows, thumb_width : {256}]}
    /\ normalized_ranges = <<>>
    /\ merged_ranges = <<>>
    /\ normalized_speed_ranges = <<>>
    /\ keep_ranges = <<>>
    /\ speed_segments = <<>>
    /\ chain_speed = 0
    /\ atempo_chain = <<>>
    /\ remerged = <<>>
    /\ chain_remaining = 0
    /\ chain_factors = <<>>
    /\ Cleared

SpriteCall ==
    /\ pc = "input"
    /\ analysis' = <<generate_sprite_sheets(duration_sec, sprite_params[1].interval_sec,
                                            sprite_params[1].columns, sprite_params[1].rows)>>
    /\ pc' = "analyzed"
    /\ UNCHANGED <<endpoint, status, detail, renders, duration_sec, normalized_ranges,
                   merged_ranges, normalized_speed_ranges, keep_ranges, speed_segments,
                   intent, submitted, video_sessions, upload_exists, outputs, sprite_params,
                   chain_speed, atempo_chain, remerged, chain_remaining, chain_factors>>

NextSprites == SpriteCall

SpecSprites == InitSprites /\ [][NextSprites]_vars

-----------------------------------------------------------------------------
(* Claims *)

Handled == pc = "done"
Ranges(seq) == {seq[i] : i \in 1..Len(seq)}
Covers(r, p) == r[1] <= p /\ p < r[2]

\* the ranges of the list cover every tick of [0, duration)
CoversTimeline(ranges, duration) ==
    \A p \in 0..(duration - 1) : \E r \in Ranges(ranges) : Covers(r, p)

\* each range starts strictly after the previous one ends
StrictlySeparated(ranges) ==
    \A i \in 2..Len(ranges) : ranges[i][1] > ranges[i - 1][2]

\* the messages of the validation failures that can precede the
\* entire-timeline test of export_from_file
EarlierValidationMessages ==
    {"Start and end must be non-negative.", "End must be greater than start.",
     "End exceeds duration.", "Speed must be greater than 0.", "Invalid speed_ranges JSON"}

\* a render invoked on an empty keep list: a trim render none of whose ranges
\* holds any time, or remove_segments_and_stitch raising for want of keep ranges
RendersNothing(inv) ==
    \/ inv.kind \in {"extract", "concat"} /\ \A r \in Ranges(inv.ranges) : r[1] >= r[2]
    \/ inv.call = "remove_segments_and_stitch" /\ inv.kind = "raise"

\* C1: a request whose validated remove ranges, merged, cover the whole of
\* [0, duration] fails with a validation error (export_from_file: with "Cannot
\* remove the entire video range." unless an earlier validation of the request
\* failed; edit_request with remove_segment: with that message and status 400)
\* and invokes no render operation; no render is ever invoked on an empty keep list.
C1_EntireRemovalRejected ==
    /\ (Handled /\ endpoint = "export_from_file" /\ normalized_ranges # <<>>
          /\ CoversTimeline(merged_ranges, duration_sec))
         => /\ renders = <<>> /\ outputs = 0
            /\ status \in {400, 500}
            /\ detail \in EarlierValidationMessages
                 \cup {"Cannot remove the entire video range."}
            /\ normalized_speed_ranges # <<>> \/ detail \notin EarlierValidationMessages
                 => status = 400 /\ detail = "Cannot remove the entire video range."
    /\ (Handled /\ endpoint = "edit_request" /\ intent # <<>>
          /\ intent[1].action = "trim_video" /\ intent[1].operation = "remove_segment"
          /\ validate_trim(intent[1].start_sec, intent[1].end_sec, duration_sec) = ""
          /\ CoversTimeline(<< <<intent[1].start_sec, intent[1].end_sec>> >>, duration_sec))
         => /\ renders = <<>> /\ outputs = 0
            /\ status = 400 /\ detail = "Cannot remove the entire video range."
    /\ \A i \in 1..Len(renders) : ~RendersNothing(renders[i])
    /\ (endpoint = "export_from_file" /\ renders # <<>>) => keep_ranges # <<>>

\* C1 witness: an export whose two touching trim ranges merge into [0, duration]
\* was rejected with the entire-range message.
C1_Witness ==
    /\ Handled /\ endpoint = "export_from_file"
    /\ Len(normalized_ranges) = 2 /\ Len(merged_ranges) = 1
    /\ CoversTimeline(merged_ranges, duration_sec)
    /\ status = 400 /\ detail = "Cannot remove the entire video range."

\* two speed ranges share more than a boundary point
Overlap(a, b) == a[1] < b[2] /\ b[1] < a[2]
SomeOverlap(speeds) ==
    \E i \in 1..Len(speeds), j \in 1..Len(speeds) : i # j /\ Overlap(speeds[i], speeds[j])

\* the request reached _build_speed_segments: its keep ranges were computed
BuildRan == Handled /\ keep_ranges # <<>>

\* C2: whenever the segment plan is built for speed ranges of which two overlap,
\* in any input order, the build fails with the overlap error, returns no
\* segments and nothing is rendered; when the ranges at most touch, the build
\* does not fail with that error.
C2_OverlapRejected ==
    BuildRan =>
      /\ SomeOverlap(normalized_speed_ranges)
           <=> (status = 400 /\ detail = "Overlapping speed ranges are not supported.")
      /\ SomeOverlap(normalized_speed_ranges) => speed_segments = <<>> /\ renders = <<>>

\* C2 witness: two overlapping speed ranges submitted with the later one first
\* were rejected.
C2_Witness ==
    /\ BuildRan /\ Len(normalized_speed_ranges) = 2
    /\ normalized_speed_ranges[1][1] > normalized_speed_ranges[2][1]
    /\ Overlap(normalized_speed_ranges[1], normalized_speed_ranges[2])
    /\ status = 400 /\ detail = "Overlapping speed ranges are not supported."

\* C3: _merge_ranges returns a list in which every range starts strictly after
\* the previous one ends (so it is sorted by start and no two ranges overlap or
\* touch); the empty list is returned for the empty list.
C3_MergeSortedSeparated ==
    pc = "merged" =>
      /\ StrictlySeparated(merged_ranges)
      /\ \A i \in 2..Len(merged_ranges) : merged_ranges[i][1] > merged_ranges[i - 1][1]
      /\ normalized_ranges = <<>> => merged_ranges = <<>>

\* C3 witness: an unsorted list holding two touching ranges was merged into
\* fewer ranges.
C3_Witness ==
    /\ pc = "merged" /\ Len(normalized_ranges) = 3 /\ Len(merged_ranges) = 2
    /\ normalized_ranges[1][1] > normalized_ranges[2][1]
    /\ \E a \in Ranges(normalized_ranges), b \in Ranges(normalized_ranges) : a[2] = b[1]

\* the number of ranges of the list that cover the tick p
CoverCount(ranges, p) == Cardinality({i \in 1..Len(ranges) : Covers(ranges[i], p)})

\* C4: the keep ranges computed from merged remove ranges are non-empty
\* intervals, sorted and pairwise disjoint, and every tick of [0, duration) lies
\* in exactly one keep range or merged remove range.
C4_KeepComplement ==
    pc = "built" =>
      /\ \A i \in 1..Len(keep_ranges) : keep_ranges[i][1] < keep_ranges[i][2]
      /\ \A i \in 2..Len(keep_ranges) : keep_ranges[i - 1][2] <= keep_ranges[i][1]
      /\ \A p \in 0..(duration_sec - 1) :
           CoverCount(keep_ranges, p) + CoverCount(merged_ranges, p) = 1
      /\ \A i \in 1..Len(keep_ranges) : 0 <= keep_ranges[i][1] /\ keep_ranges[i][2] <= duration_sec

\* C4 witness: two removed ranges left three keep ranges, before, between and
\* after them.
C4_Witness ==
    /\ pc = "built" /\ Len(merged_ranges) = 2 /\ Len(keep_ranges) = 2
    /\ merged_ranges[1][1] = 0 /\ keep_ranges[2][2] = duration_sec

SegInside(seg, r) == r[1] <= seg[1] /\ seg[2] <= r[2]
Disjoint(seg, r) == seg[2] <= r[1] \/ r[2] <= seg[1]

\* C5: for merged remove ranges and pairwise non-overlapping speed ranges, the
\* segments _build_speed_segments returns are ordered and non-overlapping: each
\* has start < end, each starts at or after the end of the one before it, and
\* each lies inside one keep range.
C5_SegmentsOrdered ==
    pc = "built" =>
      /\ \A i \in 1..Len(speed_segments) : speed_segments[i][1] < speed_segments[i][2]
      /\ \A i \in 2..Len(speed_segments) : speed_segments[i][1] >= speed_segments[i - 1][2]
      /\ \A i \in 1..Len(speed_segments) :
           \E k \in 1..Len(keep_ranges) : SegInside(speed_segments[i], keep_ranges[k])

\* two keep ranges, one segment in each, one of them sped up
C5_Witness ==
    /\ pc = "built" /\ Len(keep_ranges) = 2 /\ Len(speed_segments) = 2
    /\ SegInside(speed_segments[1], keep_ranges[1])
    /\ SegInside(speed_segments[2], keep_ranges[2])
    /\ speed_segments[1][3] # RateUnit /\ speed_segments[2][3] = RateUnit

InSegments(p) == \E i \in 1..Len(speed_segments) : Covers(speed_segments[i], p)
InKeep(p) == \E k \in 1..Len(keep_ranges) : Covers(keep_ranges[k], p)

\* the ends of the keep ranges and of the speed ranges
Boundaries ==
    UNION {{r[1], r[2]} : r \in Ranges(keep_ranges) \cup Ranges(normalized_speed_ranges)}

\* the length of the piece of kept timeline around tick p: the stretch between
\* the two boundaries next to p
PieceLength(p) ==
    LET lo == CHOOSE b \in Boundaries : b <= p /\ \A c \in Boundaries : c <= p => c <= b
        hi == CHOOSE b \in Boundaries : b > p /\ \A c \in Boundaries : c > p => b <= c
    IN  hi - lo

C7_ClippedPerKeepRange ==
    pc = "built" =>
      \A i \in 1..Len(speed_segments) :
          LET seg == speed_segments[i]
          IN  /\ \/ \E k \in 1..Len(keep_ranges), j \in 1..Len(normalized_speed_ranges) :
                       /\ SegInside(seg, keep_ranges[k])
                       /\ SegInside(seg, normalized_speed_ranges[j])
                       /\ seg[3] = normalized_speed_ranges[j][3]
                 \/ /\ seg[3] = RateUnit
                    /\ \E k \in 1..Len(keep_ranges) : SegInside(seg, keep_ranges[k])
                    /\ \A j \in 1..Len(normalized_speed_ranges) :
                           Disjoint(seg, normalized_speed_ranges[j])
              /\ \A m \in 1..Len(merged_ranges) : Disjoint(seg, merged_ranges[m])

\* a speed range spanning a removed gap, a sped-up segment on each side of it
C7_Witness ==
    /\ pc = "built" /\ Len(speed_segments) = 2
    /\ speed_segments[1][3] = RateTwo /\ speed_segments[2][3] = RateTwo
    /\ \E j \in 1..Len(normalized_speed_ranges), m \in 1..Len(merged_ranges) :
           /\ normalized_speed_ranges[j][1] < merged_ranges[m][1]
           /\ merged_ranges[m][2] < normalized_speed_ranges[j][2]
           /\ speed_segments[1][2] = merged_ranges[m][1]
           /\ speed_segments[2][1] = merged_ranges[m][2]

\* the three pieces of a timeline of the given duration cut by one speed
\* range, the empty ones left out
PiecesOf(speed_range, duration) ==
    SelectSeq(<< <<0, speed_range[1], RateUnit>>, speed_range,
                 <<speed_range[2], duration, RateUnit>> >>,
              LAMBDA piece : piece[1] < piece[2])

SinglePlan(inv) ==
    /\ inv.kind = "variable_speed"
    /\ merged_ranges = <<>>
    /\ Len(normalized_speed_ranges) = 1

\* C8: with no remove ranges and a single speed range (a, b, r), when every
\* non-empty piece of [0,a), [a,b), [b,D) is longer than the minimum segment
\* length, the plan handed to the variable-speed renderer is exactly those
\* pieces in order, at rates 1.0, r, 1.0; a filler is absent when a = 0 or b = D.
C8_SingleSpeedRangePlan ==
    \A i \in 1..Len(renders) :
        LET pieces == PiecesOf(normalized_speed_ranges[1], duration_sec)
        IN  (/\ SinglePlan(renders[i])
             /\ \A n \in 1..Len(pieces) : pieces[n][2] - pieces[n][1] > MinSegTicks)
            => renders[i].segments = pieces

\* a sped-up middle with a filler on either side
C8_Witness ==
    /\ Handled /\ status = 200 /\ endpoint = "export_from_file"
    /\ renders # <<>> /\ SinglePlan(renders[1])
    /\ Len(renders[1].segments) = 3
    /\ renders[1].segments[2] = normalized_speed_ranges[1]
    /\ renders[1].segments[2][3] = RateTwo

\* C9: the render chosen for a request is the least complex one: the
\* variable-speed render runs only when some segment has a rate other than 1.0,
\* a concatenation only when several non-empty keep ranges remain, and a
\* single non-empty range is extracted; for export_from_file and edit_request.
C9_LeastComplexPath ==
    (Handled /\ renders # <<>>) =>
      LET inv == renders[1]
      IN  /\ inv.kind = "variable_speed" => HasSpeedChange(inv.segments)
          /\ inv.kind = "concat" =>
                 /\ Len(inv.ranges) >= 2
                 /\ \A r \in Ranges(inv.ranges) : r[1] < r[2]
          /\ inv.kind = "extract" => Len(inv.ranges) = 1

\* a factor in millionths is a whole number of sixteenths for the rates modelled
Sixteenths(millionths) == millionths \div (1000000 \div RateUnit)

\* the product, in sixteenths, of the factors of an atempo chain
RECURSIVE ChainProduct(_)
ChainProduct(chain) ==
    IF Len(chain) = 1 THEN Sixteenths(chain[1])
    ELSE (Sixteenths(chain[1]) * ChainProduct(Tail(chain))) \div RateUnit

\* C10 as stated: for every segment of a variable-speed render with rate r,
\* the product of the atempo factors is r and the setpts divisor is r.
C10_TempoMatchesRate ==
    pc = "rendered" =>
      \A i \in 1..Len(renders[1].filters) :
          LET f == renders[1].filters[i]
              r == renders[1].segments[i][3]
          IN  /\ f.setpts = Format6(r)
              /\ f.atempo # <<>> => ChainProduct(f.atempo) = r

\* C10: for every segment of a variable-speed render with rate r, the product
\* of the atempo factors and the setpts divisor both equal r when r >= 0.25,
\* and both equal 0.25 when r < 0.25; every factor lies in [0.5, 2.0].
C10_TempoMatchesFlooredRate ==
    pc = "rendered" =>
      \A i \in 1..Len(renders[1].filters) :
          LET f == renders[1].filters[i]
              r == renders[1].segments[i][3]
              floored == IF r >= RateQuarter THEN r ELSE RateQuarter
          IN  /\ f.setpts = Format6(floored)
              /\ f.atempo # <<>> => ChainProduct(f.atempo) = floored
              /\ \A n \in 1..Len(f.atempo) :
                     Format6(RateHalf) <= f.atempo[n] /\ f.atempo[n] <= Format6(RateTwo)

\* a render with audio of a segment below 0.25 and of one above 2.0
C10_Witness ==
    /\ pc = "rendered" /\ Len(renders[1].filters) = 2
    /\ renders[1].segments[1][3] < RateQuarter /\ Len(renders[1].filters[1].atempo) = 2
    /\ renders[1].segments[2][3] > RateTwo /\ Len(renders[1].filters[2].atempo) >= 2

RECURSIVE Pow2(_)
Pow2(k) == IF k = 0 THEN 1 ELSE 2 * Pow2(k - 1)

\* the chain of n factors f
Repeated(f, n) == [i \in 1..n |-> f]

\* C11: for every rate > 0, _build_atempo_chain emits at least one factor and
\* every factor lies in [0.5, 2.0]; for rate 2^k (k >= 1) it emits exactly k
\* factors of 2.0 and for rate 2^-k (k >= 1) exactly k factors of 0.5.
C11_ChainWithinStageBounds ==
    pc = "chained" =>
      /\ Len(atempo_chain) >= 1
      /\ \A i \in 1..Len(atempo_chain) :
             Format6(RateHalf) <= atempo_chain[i] /\ atempo_chain[i] <= Format6(RateTwo)
      /\ \A k \in 1..MaxRate :
             /\ chain_speed = RateUnit * Pow2(k) =>
                    atempo_chain = Repeated(Format6(RateTwo), k)
             /\ chain_speed * Pow2(k) = RateUnit =>
                    atempo_chain = Repeated(Format6(RateHalf), k)

\* the chain of 1/16: four factors of 0.5
C11_Witness ==
    /\ pc = "chained" /\ chain_speed * Pow2(4) = RateUnit
    /\ atempo_chain = Repeated(Format6(RateHalf), 4)

\* the frame indices of the sheets, read in order
RECURSIVE SheetIndices(_)
SheetIndices(sheets) ==
    IF sheets = <<>> THEN <<>>
    ELSE [j \in 1..Len(sheets[1].frames) |-> sheets[1].frames[j].index]
         \o SheetIndices(Tail(sheets))

\* C12: for duration > 0, interval, columns > 0 and rows > 0,
\* generate_sprite_sheets produces ceil(totalFrames / (columns * rows)) >= 1
\* sheets; every sheet holds between 1 and columns * rows frames, all but the
\* last exactly columns * rows, and the sheets read in order yield the frame
\* indices 0 .. totalFrames - 1 once each, ascending.
C12_SheetsPartitionFrames ==
    pc = "analyzed" =>
      LET a == analysis[1]
          capacity == sprite_params[1].columns * sprite_params[1].rows
          n == Len(a.sheets)
      IN  /\ n >= 1
          /\ n * capacity >= a.total_frames /\ (n - 1) * capacity < a.total_frames
          /\ \A k \in 1..n :
                 1 <= Len(a.sheets[k].frames) /\ Len(a.sheets[k].frames) <= capacity
          /\ \A k \in 1..(n - 1) : Len(a.sheets[k].frames) = capacity
          /\ SheetIndices(a.sheets) = [i \in 1..a.total_frames |-> i - 1]

\* several sheets of several cells, the last one partly filled
C12_Witness ==
    /\ pc = "analyzed" /\ Len(analysis[1].sheets) >= 2
    /\ Len(analysis[1].sheets[1].frames) >= 2
    /\ Len(analysis[1].sheets[Len(analysis[1].sheets)].frames)
           < Len(analysis[1].sheets[1].frames)

\* C13: within every sheet the frames are laid out row-major: the j-th frame
\* (0-based) has index startFrame + j, row j div columns and col j mod columns,
\* with 0 <= col < columns and 0 <= row < rows, and no two frames of a sheet
\* share a cell.
C13_RowMajorLayout ==
    pc = "analyzed" =>
      LET a == analysis[1]
          columns == sprite_params[1].columns
          rows == sprite_params[1].rows
      IN  \A k \in 1..Len(a.sheets) :
              LET frames == a.sheets[k].frames
                  start_frame == (k - 1) * columns * rows
              IN  /\ \A j \in 1..Len(frames) :
                         /\ frames[j].index = start_frame + (j - 1)
                         /\ frames[j].row = (j - 1) \div columns
                         /\ frames[j].col = (j - 1) % columns
                         /\ 0 <= frames[j].col /\ frames[j].col < columns
                         /\ 0 <= frames[j].row /\ frames[j].row < rows
                  /\ \A i, j \in 1..Len(frames) :
                         (frames[i].row = frames[j].row /\ frames[i].col = frames[j].col)
                           => i = j

\* a first sheet of two columns filled into its second row, and a second sheet
C13_Witness ==
    /\ pc = "analyzed" /\ Len(analysis[1].sheets) >= 2
    /\ \E j \in 1..Len(analysis[1].sheets[1].frames) :
           analysis[1].sheets[1].frames[j].row = 1 /\ analysis[1].sheets[1].frames[j].col = 1

\* C14 as stated: totalFrames = floor(duration / interval) + 1 with the
\* interval the caller supplied, and that interval is reported back.
C14_FramesFromGivenInterval ==
    pc = "analyzed" =>
      /\ analysis[1].total_frames = (duration_sec \div sprite_params[1].interval_sec) + 1
      /\ analysis[1].interval_sec = sprite_params[1].interval_sec

\* C14: generate_sprite_sheets raises the supplied interval to at least 0.1 s:
\* totalFrames = floor(duration / max(0.1, interval)) + 1, and the interval
\* reported back is max(0.1, interval), the supplied one only when it is at
\* least 0.1 s.
C14_FramesFromFlooredInterval ==
    pc = "analyzed" =>
      LET given == sprite_params[1].interval_sec
          used == IF given >= MinIntervalTicks THEN given ELSE MinIntervalTicks
      IN  /\ analysis[1].total_frames = (duration_sec \div used) + 1
          /\ analysis[1].interval_sec = used

\* an interval below 0.1 s on a media long enough for the frame counts to differ
C14_Witness ==
    /\ pc = "analyzed" /\ sprite_params[1].interval_sec < MinIntervalTicks
    /\ analysis[1].total_frames >= 2
    /\ analysis[1].total_frames < (duration_sec \div sprite_params[1].interval_sec) + 1

\* C15: every frame timestamp and every sheet's startTime and endTime lie in
\* [0, duration]; a sheet's startTime is the timestamp of its first frame, its
\* endTime that of its last frame, and startTime <= endTime.
C15_TimesWithinDuration ==
    pc = "analyzed" =>
      LET a == analysis[1]
          InRange(t) == 0 <= t /\ t <= round3(duration_sec)
      IN  \A k \in 1..Len(a.sheets) :
              LET sheet == a.sheets[k]
              IN  /\ InRange(sheet.start_time_sec) /\ InRange(sheet.end_time_sec)
                  /\ \A j \in 1..Len(sheet.frames) : InRange(sheet.frames[j].timestamp_sec)
                  /\ sheet.start_time_sec = sheet.frames[1].timestamp_sec
                  /\ sheet.end_time_sec = sheet.frames[Len(sheet.frames)].timestamp_sec
                  /\ sheet.start_time_sec <= sheet.end_time_sec

\* a last sheet, partly filled, that spans some time
C15_Witness ==
    /\ pc = "analyzed" /\ Len(analysis[1].sheets) >= 2
    /\ LET last == analysis[1].sheets[Len(analysis[1].sheets)]
       IN  /\ last.start_time_sec < last.end_time_sec
           /\ Len(last.frames) < sprite_params[1].columns * sprite_params[1].rows

\* the range is not one with 0 <= start < end <= duration
Violates(r, duration) == ~(0 <= r[1] /\ r[1] < r[2] /\ r[2] <= duration)

\* the range with its ends in ascending order
Reordered(r) == <<Min(r[1], r[2]), Max(r[1], r[2])>>

\* the request ended in an error before any range was merged or resolved
RejectedBeforeTrims ==
    /\ status \notin {0, 200}
    /\ normalized_ranges = <<>> /\ merged_ranges = <<>>
    /\ keep_ranges = <<>> /\ speed_segments = <<>> /\ renders = <<>>

\* the request ended in an error before any speed range was resolved
RejectedBeforeSpeeds ==
    /\ status \notin {0, 200}
    /\ normalized_speed_ranges = <<>>
    /\ keep_ranges = <<>> /\ speed_segments = <<>> /\ renders = <<>>

ExportHandled == Handled /\ endpoint = "export_from_file" /\ submitted # <<>>
EditHandled == Handled /\ endpoint = "edit_request" /\ intent # <<>>

\* edit_request rejects a range that violates the invariant as submitted
EditRejectsViolations ==
    (EditHandled /\ Violates(<<intent[1].start_sec, intent[1].end_sec>>, duration_sec))
      => (status = 400 /\ keep_ranges = <<>> /\ speed_segments = <<>> /\ renders = <<>>)

\* C16 as stated: every submitted trim or speed range that violates
\* 0 <= start < end <= duration is rejected and reaches neither range merging
\* nor segment resolution.
C16_ViolationsRejected ==
    /\ ExportHandled =>
          /\ (\E i \in 1..Len(submitted[1].trim_ranges) :
                  Violates(submitted[1].trim_ranges[i], duration_sec)) => RejectedBeforeTrims
          /\ (\E i \in 1..Len(submitted[1].speed_ranges) :
                  Violates(submitted[1].speed_ranges[i], duration_sec)) => RejectedBeforeSpeeds
    /\ EditRejectsViolations

\* C16: export_from_file puts the ends of every submitted trim or speed range
\* in ascending order before validating it: a range is rejected, reaching
\* neither merging nor segment resolution, when the reordered range violates
\* 0 <= start < end <= duration (negative end, start = end, end beyond the
\* duration), while a range submitted with start > end is accepted as
\* (end, start); edit_request rejects every range that violates the invariant
\* as submitted.
C16_ReorderedViolationsRejected ==
    /\ ExportHandled =>
          /\ (\E i \in 1..Len(submitted[1].trim_ranges) :
                  Violates(Reordered(submitted[1].trim_ranges[i]), duration_sec))
                => RejectedBeforeTrims
          /\ (\E i \in 1..Len(submitted[1].speed_ranges) :
                  Violates(Reordered(submitted[1].speed_ranges[i]), duration_sec))
                => RejectedBeforeSpeeds
          /\ (/\ 0 < duration_sec /\ duration_sec <= MAX_VIDEO_DURATION_SEC
               /\ submitted[1].trim_json_ok
               /\ \A i \in 1..Len(submitted[1].trim_ranges) :
                      ~Violates(Reordered(submitted[1].trim_ranges[i]), duration_sec))
                => /\ Len(normalized_ranges) = Len(submitted[1].trim_ranges)
                   /\ \A i \in 1..Len(submitted[1].trim_ranges) :
                          Reordered(submitted[1].trim_ranges[i]) \in Ranges(normalized_ranges)
          /\ status = 200 =>
                /\ Len(normalized_speed_ranges) = Len(submitted[1].speed_ranges)
                /\ \A i \in 1..Len(submitted[1].speed_ranges) :
                       <<normalized_speed_ranges[i][1], normalized_speed_ranges[i][2]>>
                           = Reordered(submitted[1].speed_ranges[i])
    /\ EditRejectsViolations

\* an export that succeeded with a trim range submitted end first
C16_Witness ==
    /\ ExportHandled /\ status = 200 /\ renders # <<>>
    /\ \E i \in 1..Len(submitted[1].trim_ranges) :
           /\ submitted[1].trim_ranges[i][1] > submitted[1].trim_ranges[i][2]
           /\ Reordered(submitted[1].trim_ranges[i]) \in Ranges(merged_ranges)

\* the details of the validation errors of export_from_file and edit_request
ValidationMessages ==
    {"Start and end must be non-negative.", "End must be greater than start.",
     "End exceeds duration.", "Speed must be greater than 0.",
     "speed_multiplier must be greater than 0.",
     "Overlapping speed ranges are not supported.",
     "Cannot remove the entire video range.",
     "Only 1x and 2x are supported in v0.", "Invalid speed value."}

\* C17: a request of export_from_file or edit_request that ends with a
\* validation error (bad range, non-positive rate, overlapping speed ranges,
\* entire-timeline removal, unsupported global speed) has invoked no
\* render-engine operation and left no output artifact.
C17_ValidationErrorRendersNothing ==
    (/\ Handled /\ endpoint \in {"export_from_file", "edit_request"}
     /\ status = 400 \/ detail \in ValidationMessages)
      => (renders = <<>> /\ outputs = 0)

\* an export rejected for overlapping speed ranges after its trims were merged
C17_Witness ==
    /\ ExportHandled /\ status = 400
    /\ detail = "Overlapping speed ranges are not supported."
    /\ Len(normalized_speed_ranges) = 2 /\ keep_ranges # <<>>
    /\ renders = <<>> /\ outputs = 0

\* C18: every successful export performs exactly one render-engine encode
\* invocation, never a sequence of invocations of which one consumes the
\* output of another.
C18_OneEncodePerExport ==
    (ExportHandled /\ status = 200) => Len(renders) = 1

\* the endpoints that accept a media file
FileEndpoints ==
    {"upload_video", "analyze_sprites", "analyze_token_estimate_from_file", "export_from_file"}

\* C19: at every endpoint that accepts a media file, a file whose probed
\* duration exceeds MAX_VIDEO_DURATION_SEC is rejected with HTTP 400 and a
\* detail saying it exceeds the maximum; no session is registered for it, no
\* sprite sheet or token estimate is produced and no render is invoked.
C19_OverMaxDurationRejected ==
    /\ (Handled /\ endpoint \in FileEndpoints /\ duration_sec > MAX_VIDEO_DURATION_SEC)
         => /\ status = 400 /\ detail = "exceeds maximum"
            /\ analysis = <<>> /\ renders = <<>> /\ outputs = 0
    /\ \A i \in 1..Len(video_sessions) : video_sessions[i] <= MAX_VIDEO_DURATION_SEC

\* a token estimate refused for a file longer than the maximum
C19_Witness ==
    /\ Handled /\ endpoint = "analyze_token_estimate_from_file"
    /\ duration_sec > MAX_VIDEO_DURATION_SEC
    /\ status = 400 /\ sprite_params # <<>> /\ analysis = <<>>

\* the whole-clip speed of a form by the stated precedence; -1 when the text
\* of speed is no number
ClaimedSpeed(f) ==
    IF f.speed_multiplier # <<>> THEN f.speed_multiplier[1]
    ELSE IF f.speed_factor # <<>> THEN f.speed_factor[1]
    ELSE IF f.speed # <<>> THEN ParseSpeedText(f.speed[1])
    ELSE RateUnit

\* the details of the errors export_from_file raises before it selects the speed
BeforeSpeedSelection ==
    EarlierValidationMessages
      \cup {"File exceeds", "Invalid media file", "exceeds maximum", "Invalid trim_ranges JSON",
            "Cannot remove the entire video range."}

\* C20: in export_from_file the whole-clip speed is speed_multiplier if given,
\* else speed_factor, else speed (with an optional trailing x), else 1.0; a
\* request that passes the earlier checks is rejected with HTTP 400 and "Only
\* 1x and 2x are supported" exactly when the selected value is a number other
\* than 1.0 and 2.0, and then no render is invoked; a successful export without
\* speed ranges applies the speed multiplier exactly when the selected value is 2.0.
C20_SelectedSpeedSupported ==
    ExportHandled =>
      LET selected == ClaimedSpeed(submitted[1])
          unsupported == selected >= 0 /\ selected \notin {RateUnit, RateTwo}
      IN  /\ unsupported =>
                /\ status \notin {0, 200} /\ renders = <<>> /\ outputs = 0
                /\ detail \in BeforeSpeedSelection
                     \/ (status = 400 /\ detail = "Only 1x and 2x are supported in v0.")
          /\ detail = "Only 1x and 2x are supported in v0." => unsupported
          /\ (status = 200 /\ normalized_speed_ranges = <<>>) =>
                /\ Len(renders) = 2 <=> selected = RateTwo
                /\ Len(renders) = 2 =>
                      /\ renders[2].call = "apply_speed_multiplier"
                      /\ renders[2].filters[1].setpts = selected

\* a request with speed 3X and a valid trim range, rejected for its speed
C20_Witness ==
    /\ ExportHandled /\ status = 400 /\ detail = "Only 1x and 2x are supported in v0."
    /\ submitted[1].speed_multiplier = <<>> /\ submitted[1].speed_factor = <<>>
    /\ submitted[1].speed = << <<"3", "X">> >>
    /\ merged_ranges # <<>> /\ renders = <<>>

\* C21: _merge_ranges is idempotent: for every list R of ranges, merging the
\* list _merge_ranges(R) returns that list unchanged.
C21_MergeIdempotent ==
    pc = "remerged" => remerged = merged_ranges

\* three ranges, given out of order, that merge into two, merged again
C21_Witness ==
    /\ pc = "remerged"
    /\ Len(normalized_ranges) = 3 /\ normalized_ranges[1][1] > normalized_ranges[3][1]
    /\ Len(merged_ranges) = 2 /\ remerged = merged_ranges

\* the segments _build_speed_segments emits for the call, before any filter
Emitted ==
    _build_speed_segments(duration_sec, merged_ranges, normalized_speed_ranges).emitted

\* C22: the value _build_speed_segments returns is exactly its emitted segments
\* of length 0.01 s or more, in order: every emitted segment shorter than
\* 0.01 s is dropped on every path, the path without speed ranges included,
\* and no emitted segment of 0.01 s or more is dropped.
C22_ReturnsEmittedAtLeastEpsilon ==
    pc = "built" =>
      speed_segments = SelectSeq(Emitted, LAMBDA seg : seg[2] - seg[1] >= MinSegTicks)

\* C23: every input-validation failure of export_from_file and edit_request
\* (a range out of bounds, a non-positive rate, overlapping speed ranges, the
\* removal of the entire timeline) reaches the caller as HTTP 400 with the
\* validation message, never as HTTP 500.
C23_ValidationFailureIs400 ==
    (Handled /\ endpoint \in {"export_from_file", "edit_request"} /\ detail \in ValidationMessages)
      => status = 400

\* The walk over one keep range as specified: overlapStart is the larger of the
\* cursor and the start of the speed range.  Returns <<segments, cursor>>.
RECURSIVE SpecifiedWalk(_, _, _, _, _, _)
SpecifiedWalk(keepStart, keepEnd, speedRanges, i, cursor, out) ==
    IF i > Len(speedRanges) THEN <<out, cursor>>
    ELSE LET speedStart == speedRanges[i][1]
             speedEnd == speedRanges[i][2]
             overlapStart == Max(cursor, speedStart)
             overlapEnd == Min(keepEnd, speedEnd)
             filled == IF cursor < overlapStart
                       THEN Append(out, <<cursor, overlapStart, RateUnit>>)
                       ELSE out
         IN  IF speedEnd <= keepStart
             THEN SpecifiedWalk(keepStart, keepEnd, speedRanges, i + 1, cursor, out)
             ELSE IF speedStart >= keepEnd
             THEN <<out, cursor>>
             ELSE IF overlapStart < overlapEnd
             THEN SpecifiedWalk(keepStart, keepEnd, speedRanges, i + 1, overlapEnd,
                                Append(filled, <<overlapStart, overlapEnd, speedRanges[i][3]>>))
             ELSE SpecifiedWalk(keepStart, keepEnd, speedRanges, i + 1, cursor, out)

\* the segments the specified algorithm emits for keep ranges k.. of keepRanges
RECURSIVE SpecifiedResolve(_, _, _)
SpecifiedResolve(keepRanges, speedRanges, k) ==
    IF k > Len(keepRanges) THEN <<>>
    ELSE LET keepStart == keepRanges[k][1]
             keepEnd == keepRanges[k][2]
             walked == SpecifiedWalk(keepStart, keepEnd, speedRanges, 1, keepStart, <<>>)
             tail == IF walked[2] < keepEnd THEN << <<walked[2], keepEnd, RateUnit>> >> ELSE <<>>
         IN  IF speedRanges = <<>>
             THEN << <<keepStart, keepEnd, RateUnit>> >> \o SpecifiedResolve(keepRanges, speedRanges, k + 1)
             ELSE walked[1] \o tail \o SpecifiedResolve(keepRanges, speedRanges, k + 1)

SortedSpeeds ==
    \A i \in 2..Len(normalized_speed_ranges) :
        normalized_speed_ranges[i - 1][1] <= normalized_speed_ranges[i][1]

\* C24: for every keep-range list and every sorted list of pairwise
\* non-overlapping speed ranges, the segments _build_speed_segments emits, with
\* overlap_start = max(keep_start, speed_start), are those of the specified
\* algorithm, with overlapStart = max(cursor, speedStart); so are the segments
\* it returns after the filter, for a call with speed ranges.
C24_EmitsAsSpecified ==
    (pc = "built" /\ SortedSpeeds) =>
      LET specified == SpecifiedResolve(keep_ranges, normalized_speed_ranges, 1)
      IN  /\ Emitted = specified
          /\ normalized_speed_ranges # <<>> =>
                speed_segments = SelectSeq(specified, LAMBDA seg : seg[2] - seg[1] > MinSegTicks)

\* one keep range and two speed ranges with a gap between them: when the second
\* is reached the cursor is past the start of the keep range
C24_Witness ==
    /\ pc = "built" /\ SortedSpeeds
    /\ Len(keep_ranges) = 1 /\ Len(normalized_speed_ranges) = 2
    /\ keep_ranges[1][1] < normalized_speed_ranges[1][1]
    /\ normalized_speed_ranges[1][2] < normalized_speed_ranges[2][1]
    /\ Len(Emitted) = 4
    /\ Emitted[1][3] = RateUnit /\ Emitted[2][3] = RateTwo
    /\ Emitted[3][3] = RateUnit /\ Emitted[4][3] = RateTwo
    /\ speed_segments # <<>>

C26_MergePreservesCover ==
    pc = "merged" =>
      \A p \in 0..Duration :
          (\E i \in 1..Len(merged_ranges) : Covers(merged_ranges[i], p))
            <=> (\E j \in 1..Len(normalized_ranges) : Covers(normalized_ranges[j], p))

\* a range that reaches beyond the end of a range given after it, and a third
\* range apart from both
C26_Witness ==
    /\ pc = "merged" /\ Len(normalized_ranges) = 3 /\ Len(merged_ranges) = 2
    /\ \E i, j \in 1..3 :
          /\ i < j
          /\ normalized_ranges[i][1] <= normalized_ranges[j][1]
          /\ normalized_ranges[j][2] < normalized_ranges[i][2]

\* C27: the tempo decomposition terminates for every rate it can be called
\* with: _build_atempo_chain called with a rate > 0, or called by
\* render_segments_with_speed for a segment of any rate (0 and negative rates
\* included, which it raises to 0.25), returns its chain.
C27_ChainTerminates ==
    <>(pc = "chained")

\* the timestamps of the frames of the sheets, read in order
RECURSIVE SheetTimestamps(_)
SheetTimestamps(sheets) ==
    IF sheets = <<>> THEN <<>>
    ELSE [j \in 1..Len(sheets[1].frames) |-> sheets[1].frames[j].timestamp_sec]
         \o SheetTimestamps(Tail(sheets))

\* C28: the clamp to the duration in generate_sprite_sheets never changes a
\* value: every frame index g < totalFrames has g * interval <= duration, so
\* the timestamp of frame g is g * interval, with the interval the function
\* reports; the timestamps are strictly increasing over the whole frame
\* sequence, across sheet boundaries, and no two frames share one.
C28_ClampChangesNothing ==
    pc = "analyzed" =>
      LET a == analysis[1]
          times == SheetTimestamps(a.sheets)
      IN  /\ Len(times) = a.total_frames
          /\ \A g \in 0..(a.total_frames - 1) :
                /\ g * a.interval_sec <= duration_sec
                /\ times[g + 1] = round3(g * a.interval_sec)
          /\ \A g \in 2..Len(times) : times[g - 1] < times[g]
          /\ \A k \in 1..Len(a.sheets) :
                a.sheets[k].end_time_sec
                  = round3(a.sheets[k].frames[Len(a.sheets[k].frames)].index * a.interval_sec)

\* the interval does not divide the duration, the last frame lies before the
\* end of the media, and the frames fill more than one sheet
C28_Witness ==
    /\ pc = "analyzed" /\ Len(analysis[1].sheets) >= 2
    /\ duration_sec % analysis[1].interval_sec # 0
    /\ LET times == SheetTimestamps(analysis[1].sheets)
       IN  /\ times[Len(times)] < round3(duration_sec)
           /\ times[Len(times)] + round3(analysis[1].interval_sec) > round3(duration_sec)

\* the endpoints that treat the upload as temporary
TemporaryUploadEndpoints ==
    {"export_from_file", "analyze_sprites", "analyze_token_estimate_from_file"}

\* C29: at the endpoints that treat the upload as temporary, once the uploaded
\* file has been saved the request ends, on success and on every error outcome
\* (invalid media, over-max duration, invalid ranges or speed, render failure),
\* with the saved upload file deleted.
C29_UploadDeleted ==
    (Handled /\ endpoint \in TemporaryUploadEndpoints) => ~upload_exists

=============================================================================
